---- MODULE Spec2Model ----
(***************************************************************************)
(* PMZara: the conversation orchestrator (ChatService), the context store  *)
(* (MemoryService over the memory and conversation tables) and the task    *)
(* routes, as a state machine.                                             *)
(*                                                                         *)
(* Text is a sequence of chunks.  A chunk is a maximal run of word         *)
(* characters (a word), or one whitespace character.  Keyword tests        *)
(* (String.includes) and the regular expressions of chat-service.ts are    *)
(* computed on these sequences with the priorities of the JavaScript       *)
(* regex engine: leftmost start, greedy \s+, lazy .+?                      *)
(***************************************************************************)
EXTENDS Integers, Sequences, FiniteSets, TLC

(***************************************************************************)
(* Bounds of the model.                                                    *)
(***************************************************************************)
MaxCalls == 1        \* chat calls in Spec
MaxTopicCalls == 2   \* chat calls in SpecTopics
MaxTime == 2         \* the clock runs 0..MaxTime
MaxWrites == 2       \* storeMemory calls in SpecMem
MaxExtra == 11       \* other memories of the user in SpecReset
MaxTasks == 2        \* rows of the task table in SpecTask
MaxPromptCalls == 1  \* calls of the prompt service in SpecPrompt
MaxGatewayCalls == 1 \* calls in SpecGateway
MaxRaceCalls == 2    \* processMessage calls under way at once in SpecRace
MaxChatCalls == 2    \* chat calls in SpecChat
MaxCtxCalls == 2     \* storeConversationContext calls in SpecCtxFault

(***************************************************************************)
(* Options: <<>> is "absent" (undefined / null), <<x>> is "present".       *)
(***************************************************************************)
None == <<>>

Some(x) == <<x>>

IsSome(o) == Len(o) > 0

Get(o) == o[1]

(***************************************************************************)
(* Text.                                                                   *)
(***************************************************************************)
SP == " "

IsWs(c) == c = SP

\* String.toLowerCase on one chunk.
Lower(c) ==
  CASE c = "I" -> "i"
    [] c = "Spanish" -> "spanish"
    [] c = "Task" -> "task"
    [] c = "You" -> "you"
    [] c = "IGNORE" -> "ignore"
    [] c = "systemPrompt" -> "systemprompt"
    [] c = "taskPrompt" -> "taskprompt"
    [] c = "modulePrompt" -> "moduleprompt"
    [] OTHER -> c

\* \w+ : every chunk that is not whitespace or punctuation is a word.
IsWord(c) == c \notin {SP, ",", "\"", "[", "]"}

\* The keywords of chat-service.ts that are substrings of a lower-cased chunk.
Sub(c) ==
  CASE c = "task" -> {"task"}
    [] c = "tasks" -> {"task"}
    [] c = "todo" -> {"todo"}
    [] c = "finish" -> {"finish"}
    [] c = "spanish" -> {"spanish"}
    [] c = "tired" -> {"tired"}
    [] c = "excited" -> {"excited"}
    [] c = "okay" -> {"okay"}
    [] c = "unmotivated" -> {"unmotivated", "motivated"}
    [] c = "stressed" -> {"stressed", "stress"}
    [] c = "code" -> {"code"}
    [] OTHER -> {}

\* userMessage.toLowerCase().includes(keyword)
Includes(text, kw) == \E i \in 1..Len(text) : kw \in Sub(Lower(text[i]))

IncludesAny(text, kws) == \E kw \in kws : Includes(text, kw)

LowerSeq(text) == [i \in 1..Len(text) |-> Lower(text[i])]

\* String.trim
RECURSIVE TrimLeft(_)
TrimLeft(s) == IF s # <<>> /\ IsWs(Head(s)) THEN TrimLeft(Tail(s)) ELSE s

RECURSIVE TrimRight(_)
TrimRight(s) ==
  IF s # <<>> /\ IsWs(s[Len(s)]) THEN TrimRight(SubSeq(s, 1, Len(s) - 1)) ELSE s

Trim(s) == TrimRight(TrimLeft(s))

Min(S) == CHOOSE x \in S : \A y \in S : x <= y

Max(S) == CHOOSE x \in S : \A y \in S : x >= y

\* The literal alternatives of a regex group that match (case-insensitively)
\* the text starting at chunk s: the set of end positions.
LiteralEnds(text, s, alts) ==
  { s + Len(a) - 1 : a \in { a \in alts :
      /\ s + Len(a) - 1 <= Len(text)
      /\ LowerSeq(SubSeq(text, s, s + Len(a) - 1)) = a } }

\* \s+ after position e consumes k >= 1 whitespace chunks.
WsRuns(text, e) ==
  { k \in 1..(Len(text) - e) : \A x \in (e + 1)..(e + k) : IsWs(text[x]) }

(***************************************************************************)
(* /(?:task|todo|remind me to|need to)\s+(.+?)(?:\s|$)/i                   *)
(***************************************************************************)
TaskTriggers ==
  { <<"task">>, <<"todo">>, <<"remind", SP, "me", SP, "to">>, <<"need", SP, "to">> }

\* The start positions at which the whole pattern matches: a trigger, then
\* \s+, then at least one more chunk for (.+?); the end of the text is a stop.
\* The same start has one trigger only: the alternatives begin differently.
TaskStarts(text) ==
  { s \in 1..Len(text) :
      \E e \in LiteralEnds(text, s, TaskTriggers) :
        \E k \in WsRuns(text, e) : e + k + 1 <= Len(text) }

TaskCaptureGreedy(text) ==
  IF TaskStarts(text) = {} THEN None
  ELSE LET s == Min(TaskStarts(text))
           e == Min(LiteralEnds(text, s, TaskTriggers))
       IN Some(SubSeq(text, e + 1, Len(text)))

\* The capture (.+?) as a sequence of chunks, or None when nothing matches:
\* leftmost start, then the longest \s+ that leaves a chunk to capture, then
\* the shortest capture that is followed by whitespace or by the end.
TaskCapture(text) ==
  IF TaskStarts(text) = {} THEN None
  ELSE LET s == Min(TaskStarts(text))
           e == Min(LiteralEnds(text, s, TaskTriggers))
           k == Max({ x \in WsRuns(text, e) : e + x + 1 <= Len(text) })
           j == Min({ x \in (e + k + 1)..Len(text) :
                        x = Len(text) \/ IsWs(text[x + 1]) })
       IN Some(SubSeq(text, e + k + 1, j))

(***************************************************************************)
(* extractTopics: three patterns, each contributing its leftmost match.    *)
(***************************************************************************)
TopicLeads1 == { <<"talking", SP, "about">>, <<"discussing">>, <<"learning">> }

TopicLeads3 == { <<"working", SP, "on">>, <<"studying">>, <<"practicing">> }

TopicVerbs == { <<"is">>, <<"are">> }

TopicAdjectives == { <<"important">>, <<"interesting">>, <<"difficult">> }

\* /(?:lead)\s+(\w+)/i : the start positions that match, with the captured word.
LeadTopic(text, leads) ==
  LET hits == { s \in 1..Len(text) :
                  \E e \in LiteralEnds(text, s, leads) :
                    \E k \in WsRuns(text, e) :
                      e + k + 1 <= Len(text) /\ IsWord(text[e + k + 1]) }
  IN IF hits = {} THEN <<>>
     ELSE LET s == Min(hits)
              e == Min(LiteralEnds(text, s, leads))
              k == Max({ k \in WsRuns(text, e) :
                           e + k + 1 <= Len(text) /\ IsWord(text[e + k + 1]) })
          IN << Lower(text[e + k + 1]) >>

\* /(\w+)\s+(?:is|are)\s+(?:important|interesting|difficult)/i
PredicateTopic(text) ==
  LET hits == { s \in 1..Len(text) :
                  /\ IsWord(text[s])
                  /\ \E k \in WsRuns(text, s) :
                       \E e \in LiteralEnds(text, s + k + 1, TopicVerbs) :
                         \E k2 \in WsRuns(text, e) :
                           LiteralEnds(text, e + k2 + 1, TopicAdjectives) # {} }
  IN IF hits = {} THEN <<>> ELSE << Lower(text[Min(hits)]) >>

extractTopics(message) ==
  LeadTopic(message, TopicLeads1) \o PredicateTopic(message)
    \o LeadTopic(message, TopicLeads3)


(***************************************************************************)
(* The texts of the model, and the two regex results of each, computed     *)
(* once.                                                                   *)
(***************************************************************************)
\* The user messages the model sends.
MsgReport ==
  <<"I", SP, "need", SP, "to", SP, "finish", SP, "my", SP, "report", SP, "by", SP, "tomorrow">>

MsgTopics ==
  <<"learning", SP, "Spanish", SP, "math", SP, "is", SP, "difficult", SP, "studying", SP, "chess">>

MsgCode == <<"discussing", SP, "code">>

MsgBlank == <<"task", SP, SP>>

MsgPlural == <<"tasks", SP, "todo", SP, SP, "chess", SP, "okay">>

MsgTired == <<"tired", SP, "need", SP, "to", SP, "sleep">>

MsgMixed == <<"tired", SP, "but", SP, "excited">>

Messages == { MsgReport, MsgTopics, MsgCode, MsgBlank, MsgPlural, MsgTired, MsgMixed }

\* TaskCapture and extractTopics of every message, evaluated once.
MessageFacts ==
  [ m \in Messages |-> [ capture |-> TaskCapture(m), topics |-> extractTopics(m) ] ]

CaptureOf(text) ==
  IF text \in DOMAIN MessageFacts THEN MessageFacts[text].capture ELSE TaskCapture(text)

TopicsOf(text) ==
  IF text \in DOMAIN MessageFacts THEN MessageFacts[text].topics ELSE extractTopics(text)

(***************************************************************************)
(* ConversationContext: userId and five optional fields.                   *)
(***************************************************************************)
EmptyContext(userId) ==
  [ userId |-> userId, currentTask |-> None, mood |-> None, energy |-> None,
    recentTopics |-> None, activeModules |-> None ]

\* JavaScript truthiness of an optional string: present and not ''.
Truthy(o) == IsSome(o) /\ Get(o) # <<>>

\* context.recentTopics || [] , context.activeModules || []
OrEmpty(o) == IF IsSome(o) THEN Get(o) ELSE <<>>

TopicCap == 5

SliceFirst(s, n) == IF Len(s) <= n THEN s ELSE SubSeq(s, 1, n)

\* Array.prototype.slice(-n)
SliceLast(s, n) == IF Len(s) <= n THEN s ELSE SubSeq(s, Len(s) - n + 1, Len(s))

\* The list as it is, duplicates kept.
DedupNone(s) == s

\* filter((module, index, array) => array.indexOf(module) === index)
Dedup(s) ==
  LET keep == { i \in 1..Len(s) : \A j \in 1..(i - 1) : s[j] # s[i] }
      F[i \in 0..Len(s)] ==
        IF i = 0 THEN <<>>
        ELSE IF i \in keep THEN Append(F[i - 1], s[i]) ELSE F[i - 1]
  IN F[Len(s)]

taskKeywords == {"task", "todo", "remind", "deadline", "due", "finish", "complete"}

moodKeywords ==
  << [name |-> "happy", words |-> {"happy", "great", "excellent", "wonderful", "excited"}],
     [name |-> "stressed", words |-> {"stressed", "worried", "anxious", "overwhelmed", "tired"}],
     [name |-> "neutral", words |-> {"okay", "fine", "alright", "normal"}] >>

energyKeywords ==
  << [name |-> "high", words |-> {"energetic", "motivated", "ready", "excited"}],
     [name |-> "low", words |-> {"tired", "exhausted", "drained", "unmotivated"}],
     [name |-> "medium", words |-> {"okay", "fine", "normal"}] >>

moduleKeywords ==
  << [name |-> "languagePractice", words |-> {"spanish", "french", "language", "translate", "practice"}],
     [name |-> "wellbeing", words |-> {"mood", "feeling", "energy", "stress", "tired"}],
     [name |-> "coding", words |-> {"code", "programming", "debug", "function", "algorithm"}] >>

\* The loop without its break: the last matching set wins.
FirstMatchLast(table, text, old) ==
  LET hits == { i \in 1..Len(table) : IncludesAny(text, table[i].words) }
  IN IF hits = {} THEN old ELSE Some(<<table[Max(hits)].name>>)

\* for (...) { if (keywords.some(...)) { field = name; break; } }
FirstMatch(table, text, old) ==
  LET hits == { i \in 1..Len(table) : IncludesAny(text, table[i].words) }
  IN IF hits = {} THEN old ELSE Some(<<table[Min(hits)].name>>)

\* The modules one of whose keywords is in the message or in the reply.
DetectModules(userMessage, zaraResponse) ==
  LET hit(i) == \/ IncludesAny(userMessage, moduleKeywords[i].words)
                \/ IncludesAny(zaraResponse, moduleKeywords[i].words)
      F[i \in 0..Len(moduleKeywords)] ==
        IF i = 0 THEN <<>>
        ELSE IF hit(i) THEN Append(F[i - 1], moduleKeywords[i].name) ELSE F[i - 1]
  IN F[Len(moduleKeywords)]

\* Task detection without the test of the task already set.
DetectTaskAlways(context, userMessage) ==
  IF IncludesAny(userMessage, taskKeywords) /\ IsSome(CaptureOf(userMessage))
  THEN Some(Trim(Get(CaptureOf(userMessage))))
  ELSE context.currentTask

DetectTask(context, userMessage) ==
  IF IncludesAny(userMessage, taskKeywords) /\ ~Truthy(context.currentTask)
       /\ IsSome(CaptureOf(userMessage))
  THEN Some(Trim(Get(CaptureOf(userMessage))))
  ELSE context.currentTask

UpdateTopics(context, userMessage) ==
  IF Len(TopicsOf(userMessage)) > 0
  THEN Some(SliceLast(OrEmpty(context.recentTopics) \o TopicsOf(userMessage), TopicCap))
  ELSE context.recentTopics

UpdateModules(context, userMessage, zaraResponse) ==
  IF Len(DetectModules(userMessage, zaraResponse)) > 0
  THEN Some(Dedup(OrEmpty(context.activeModules) \o DetectModules(userMessage, zaraResponse)))
  ELSE context.activeModules

updateContextFromMessage(context, userMessage, zaraResponse) ==
  [ userId |-> context.userId,
    currentTask |-> DetectTask(context, userMessage),
    mood |-> FirstMatch(moodKeywords, userMessage, context.mood),
    energy |-> FirstMatch(energyKeywords, userMessage, context.energy),
    recentTopics |-> UpdateTopics(context, userMessage),
    activeModules |-> UpdateModules(context, userMessage, zaraResponse) ]

(***************************************************************************)
(* JSON.stringify / JSON.parse of an array of words, as text.              *)
(***************************************************************************)
QUOTE == "\""

RECURSIVE JsonItems(_)
JsonItems(list) ==
  IF list = <<>> THEN <<>>
  ELSE <<QUOTE, Head(list), QUOTE>>
         \o (IF Len(list) > 1 THEN <<",">> ELSE <<>>) \o JsonItems(Tail(list))

JsonStringify(list) == <<"[">> \o JsonItems(list) \o <<"]">>

\* The items of "w","w",...  or None when the text is not such a list.
RECURSIVE ParseItems(_)
ParseItems(t) ==
  IF Len(t) >= 3 /\ t[1] = QUOTE /\ IsWord(t[2]) /\ t[3] = QUOTE
  THEN IF Len(t) = 3 THEN Some(<<t[2]>>)
       ELSE IF t[4] = "," /\ IsSome(ParseItems(SubSeq(t, 5, Len(t))))
            THEN Some(<<t[2]>> \o Get(ParseItems(SubSeq(t, 5, Len(t)))))
            ELSE None
  ELSE None

\* None models the SyntaxError that getConversationContext catches.
JsonParse(t) ==
  IF Len(t) >= 2 /\ t[1] = "[" /\ t[Len(t)] = "]"
  THEN IF Len(t) = 2 THEN Some(<<>>) ELSE ParseItems(SubSeq(t, 2, Len(t) - 1))
  ELSE None


(***************************************************************************)
(* The memory table.  A store is the sequence of its rows in the order of  *)
(* updatedAt, oldest first: every write moves its row to the end.          *)
(* A row: id, userId, key, type, value (text), expiresAt (option).         *)
(***************************************************************************)
RemoveAt(s, i) == SubSeq(s, 1, i - 1) \o SubSeq(s, i + 1, Len(s))

Matching(mem, userId, key, type) ==
  { i \in 1..Len(mem) :
      /\ mem[i].userId = userId
      /\ mem[i].key = key
      /\ IsSome(type) => mem[i].type = Get(type) }

\* A fresh id (Prisma's cuid): one that no row has.
NewId(mem) == Min({ n \in 1..(Len(mem) + 1) : \A i \in 1..Len(mem) : mem[i].id # n })

UpdatedRowKeepValue(row, value, expiresAt) == row

\* prisma.memory.update: a field given as undefined is left as it is.
UpdatedRow(row, value, expiresAt) ==
  [ row EXCEPT !.value = value,
               !.expiresAt = IF IsSome(expiresAt) THEN expiresAt ELSE @ ]

CreatedRow(mem, userId, key, value, type, expiresAt) ==
  [ id |-> NewId(mem), userId |-> userId, key |-> key, type |-> type,
    value |-> value, expiresAt |-> expiresAt ]

storeMemoryInsert(mem, userId, key, value, type, expiresAt) ==
  { [ mem |-> Append(mem, CreatedRow(mem, userId, key, value, type, expiresAt)),
      row |-> CreatedRow(mem, userId, key, value, type, expiresAt) ] }

\* storeMemory: the possible outcomes [mem, row].  findFirst has no orderBy, so
\* with several matching rows the one it returns is the database's choice.
storeMemory(mem, userId, key, value, type, expiresAt) ==
  IF Matching(mem, userId, key, Some(type)) = {}
  THEN { [ mem |-> Append(mem, CreatedRow(mem, userId, key, value, type, expiresAt)),
           row |-> CreatedRow(mem, userId, key, value, type, expiresAt) ] }
  ELSE { [ mem |-> Append(RemoveAt(mem, i), UpdatedRow(mem[i], value, expiresAt)),
           row |-> UpdatedRow(mem[i], value, expiresAt) ] :
         i \in Matching(mem, userId, key, Some(type)) }

deleteMemory(mem, id) == SelectSeq(mem, LAMBDA r : r.id # id)

\* memory.expiresAt && memory.expiresAt < new Date()
Expired(row, now) == IsSome(row.expiresAt) /\ Get(row.expiresAt) < now

\* getMemory: the most recently updated match; an expired match is deleted and
\* null is returned.  [mem, result, expiredHit]
getMemory(mem, userId, key, type, now) ==
  IF Matching(mem, userId, key, type) = {}
  THEN [ mem |-> mem, result |-> None, expiredHit |-> FALSE ]
  ELSE LET row == mem[Max(Matching(mem, userId, key, type))] IN
       IF Expired(row, now)
       THEN [ mem |-> deleteMemory(mem, row.id), result |-> None, expiredHit |-> TRUE ]
       ELSE [ mem |-> mem, result |-> Some(row), expiredHit |-> FALSE ]

Reverse(s) == [ i \in 1..Len(s) |-> s[Len(s) + 1 - i] ]

\* The words a key contains (String.includes on the key).
KeySub(key) == IF key = "current_task" THEN {"task"} ELSE {}

\* value.toLowerCase().includes(needle.toLowerCase()), on whole chunks.
TextIncludes(hay, needle) ==
  \E s \in 1..(Len(hay) + 1) :
    /\ s + Len(needle) - 1 <= Len(hay)
    /\ LowerSeq(SubSeq(hay, s, s + Len(needle) - 1)) = LowerSeq(needle)

DefaultLimit == 10

\* The filter of getRelevantMemories: the first test that applies decides.
Relevant(memory, context) ==
  IF Truthy(context.currentTask)
       /\ ("task" \in KeySub(memory.key)
             \/ TextIncludes(memory.value, Get(context.currentTask)))
  THEN TRUE
  ELSE IF Len(OrEmpty(context.activeModules)) > 0
  THEN \E i \in 1..Len(Get(context.activeModules)) :
         \/ Get(context.activeModules)[i] \in KeySub(memory.key)
         \/ TextIncludes(memory.value, <<Get(context.activeModules)[i]>>)
  ELSE IF Len(OrEmpty(context.recentTopics)) > 0
  THEN \E i \in 1..Len(Get(context.recentTopics)) :
         TextIncludes(memory.value, <<Get(context.recentTopics)[i]>>)
  ELSE memory.type \in {"general", "conversation"}

\* findMany({where: {userId, OR: [expiresAt null, expiresAt > now]},
\*           orderBy: updatedAt desc, take: limit})
RecentMemories(mem, userId, limit, now) ==
  LET live == SelectSeq(Reverse(mem), LAMBDA r :
                /\ r.userId = userId
                /\ ~IsSome(r.expiresAt) \/ Get(r.expiresAt) > now)
  IN SubSeq(live, 1, IF Len(live) < limit THEN Len(live) ELSE limit)

getRelevantMemories(mem, userId, context, limit, now) ==
  LET found == SelectSeq(RecentMemories(mem, userId, limit, now),
                         LAMBDA r : Relevant(r, context))
  IN SubSeq(found, 1, IF Len(found) < limit THEN Len(found) ELSE limit)

(***************************************************************************)
(* storeConversationContext / getConversationContext                       *)
(***************************************************************************)
\* The writes of storeConversationContext, in order: one per populated field.
ContextWrites(context) ==
  (IF Truthy(context.currentTask)
     THEN << [key |-> "current_task", value |-> Get(context.currentTask)] >> ELSE <<>>)
  \o (IF Truthy(context.mood)
     THEN << [key |-> "current_mood", value |-> Get(context.mood)] >> ELSE <<>>)
  \o (IF Truthy(context.energy)
     THEN << [key |-> "current_energy", value |-> Get(context.energy)] >> ELSE <<>>)
  \o (IF Len(OrEmpty(context.recentTopics)) > 0
     THEN << [key |-> "recent_topics",
              value |-> JsonStringify(Get(context.recentTopics))] >> ELSE <<>>)
  \o (IF Len(OrEmpty(context.activeModules)) > 0
     THEN << [key |-> "active_modules",
              value |-> JsonStringify(Get(context.activeModules))] >> ELSE <<>>)

\* The stores after the first n writes of a list were made on a store of mems.
RECURSIVE StoreAll(_, _, _, _)
StoreAll(mems, userId, writes, n) ==
  IF n = 0 \/ writes = <<>> THEN mems
  ELSE StoreAll(
         UNION { { o.mem : o \in storeMemory(m, userId, Head(writes).key,
                                            Head(writes).value, "conversation", None) } :
                 m \in mems },
         userId, Tail(writes), n - 1)

\* storeConversationContext that made `done` of its writes: all of them, or
\* fewer when the next one threw.
storeConversationContext(mem, userId, context, done) ==
  StoreAll({mem}, userId, ContextWrites(context), done)

ContextKeys ==
  << "current_task", "current_mood", "current_energy", "recent_topics", "active_modules" >>

\* One field of the context from the memory read for it.
WithField(context, key, result) ==
  IF ~IsSome(result) THEN context
  ELSE CASE key = "current_task" -> [context EXCEPT !.currentTask = Some(Get(result).value)]
         [] key = "current_mood" -> [context EXCEPT !.mood = Some(Get(result).value)]
         [] key = "current_energy" -> [context EXCEPT !.energy = Some(Get(result).value)]
         [] key = "recent_topics" ->
              [context EXCEPT !.recentTopics = JsonParse(Get(result).value)]
         [] key = "active_modules" ->
              [context EXCEPT !.activeModules = JsonParse(Get(result).value)]

\* getConversationContext after `done` of its five getMemory calls: [mem, context]
RECURSIVE ReadContext(_, _, _, _, _)
ReadContext(mem, context, keys, done, now) ==
  IF done = 0 \/ keys = <<>> THEN [ mem |-> mem, context |-> context ]
  ELSE LET r == getMemory(mem, context.userId, Head(keys), Some("conversation"), now)
       IN ReadContext(r.mem, WithField(context, Head(keys), r.result),
                      Tail(keys), done - 1, now)

getConversationContext(mem, userId, done, now) ==
  ReadContext(mem, EmptyContext(userId), ContextKeys, done, now)


(***************************************************************************)
(* The conversation table (append-only) and the prompt.                    *)
(***************************************************************************)
\* storeConversation: prisma.conversation.create with the role in the metadata.
storeConversation(conv, userId, content, type) ==
  Append(conv, [ userId |-> userId, content |-> content, type |-> type ])

\* getRecentConversations: findMany({where: {userId}, orderBy: timestamp desc,
\* take: limit}), newest first.
getRecentConversations(conv, userId, limit) ==
  LET mine == SelectSeq(Reverse(conv), LAMBDA c : c.userId = userId)
  IN SubSeq(mine, 1, IF Len(mine) < limit THEN Len(mine) ELSE limit)

\* formatMemoriesForPrompt: "<key>: <value> (<date>)" joined with "; "
RECURSIVE formatMemoriesForPrompt(_)
formatMemoriesForPrompt(memories) ==
  IF memories = <<>> THEN <<>>
  ELSE <<Head(memories).key, ":", SP>> \o Head(memories).value \o <<SP, "(date)">>
         \o (IF Len(memories) > 1 THEN <<";", SP>> ELSE <<>>)
         \o formatMemoriesForPrompt(Tail(memories))

(***************************************************************************)
(* PromptService (scripts/setup.js, lines 69-321).                         *)
(*                                                                         *)
(* A JavaScript object with string keys is an ordered map: a sequence of   *)
(* [name, value] entries in insertion order, which is the order of         *)
(* Object.entries for names that are not integer-like.                     *)
(***************************************************************************)
MapHas(map, k) == \E i \in 1..Len(map) : map[i].name = k

MapGet(map, k) == map[CHOOSE i \in 1..Len(map) : map[i].name = k].value

MapKeys(map) == [ i \in 1..Len(map) |-> map[i].name ]

\* map[k] = v : an existing key keeps its place, a new key goes last.
MapPut(map, k, v) ==
  IF MapHas(map, k)
  THEN [ i \in 1..Len(map) |->
           IF map[i].name = k THEN [ name |-> k, value |-> v ] ELSE map[i] ]
  ELSE Append(map, [ name |-> k, value |-> v ])

\* { ...a, ...b }
RECURSIVE Spread(_, _)
Spread(a, b) ==
  IF b = <<>> THEN a ELSE Spread(MapPut(a, Head(b).name, Head(b).value), Tail(b))

\* A prompt configuration or an override: every field is optional.
NoOverrides ==
  [ systemPrompt |-> None, taskPrompt |-> None, modulePrompts |-> None, style |-> None ]

mergePromptsShallow(defaults, overrides) ==
  [ systemPrompt |-> IF Truthy(overrides.systemPrompt)
                       THEN overrides.systemPrompt ELSE defaults.systemPrompt,
    taskPrompt |-> IF Truthy(overrides.taskPrompt)
                     THEN overrides.taskPrompt ELSE defaults.taskPrompt,
    modulePrompts |-> IF IsSome(overrides.modulePrompts)
                        THEN overrides.modulePrompts ELSE defaults.modulePrompts,
    style |-> IF IsSome(overrides.style) THEN overrides.style ELSE defaults.style ]

\* mergePrompts: merged = {...defaults}; a truthy scalar override replaces the
\* field; modulePrompts and style are spread over the default's.
mergePrompts(defaults, overrides) ==
  [ systemPrompt |-> IF Truthy(overrides.systemPrompt)
                       THEN overrides.systemPrompt ELSE defaults.systemPrompt,
    taskPrompt |-> IF Truthy(overrides.taskPrompt)
                     THEN overrides.taskPrompt ELSE defaults.taskPrompt,
    modulePrompts |-> IF IsSome(overrides.modulePrompts)
                        THEN Some(Spread(OrEmpty(defaults.modulePrompts),
                                         Get(overrides.modulePrompts)))
                        ELSE defaults.modulePrompts,
    style |-> IF IsSome(overrides.style)
                THEN Some(Spread(OrEmpty(defaults.style), Get(overrides.style)))
                ELSE defaults.style ]

\* The prompt files: a function from the paths that exist and parse to the
\* template objects (ordered maps of field name to text).
SystemPath == <<"system.json">>

TasksPath == <<"tasks.json">>

ModulePath(moduleName) == <<"modules", moduleName>>

\* loadPrompt: None stands for the throw ("Prompt file not found").
loadPrompt(files, path) ==
  IF path \in DOMAIN files THEN Some(files[path]) ELSE None

\* template.field : undefined when the template has no such field.
Field(template, name) ==
  IF MapHas(template, name) THEN Some(MapGet(template, name)) ELSE None

\* `${x}` in a template literal.
Interpolate(o) == IF IsSome(o) THEN Get(o) ELSE <<"undefined">>

\* The loop without its skips: every active module gets an entry.
RECURSIVE LoadModulePromptsAll(_, _, _)
LoadModulePromptsAll(files, activeModules, modulePrompts) ==
  IF activeModules = <<>> THEN modulePrompts
  ELSE LoadModulePromptsAll(files, Tail(activeModules),
         MapPut(modulePrompts, Head(activeModules), <<"undefined">>))

\* The loop over context.activeModules: a module whose file is missing or
\* whose modulePrompt is falsy is skipped.
RECURSIVE LoadModulePrompts(_, _, _)
LoadModulePrompts(files, activeModules, modulePrompts) ==
  IF activeModules = <<>> THEN modulePrompts
  ELSE LET moduleName == Head(activeModules)
           modulePrompt == loadPrompt(files, ModulePath(moduleName))
           next == IF IsSome(modulePrompt)
                      /\ Truthy(Field(Get(modulePrompt), "modulePrompt"))
                     THEN MapPut(modulePrompts, moduleName,
                                 Get(Field(Get(modulePrompt), "modulePrompt")))
                     ELSE modulePrompts
       IN LoadModulePrompts(files, Tail(activeModules), next)

NL2 == "\n\n"

\* promptParts.join('\n\n')
RECURSIVE Join(_)
Join(parts) ==
  IF parts = <<>> THEN <<>>
  ELSE IF Len(parts) = 1 THEN Head(parts)
  ELSE Head(parts) \o <<NL2>> \o Join(Tail(parts))

SystemPart(text) == <<"[System]", SP>> \o text

\* "->" stands for the arrow character of the template literal.
ModulePart(entry) ==
  <<"[System]", SP, "Module:", SP, entry.name, SP, "->", SP>> \o entry.value

MemoryPart(memory) == <<"[System]", SP, "Memory:", SP>> \o memory

UserPart(userMessage) == <<"[User]", SP>> \o userMessage

\* The defaultConfig of buildPrompt.
DefaultConfig(files, context) ==
  [ systemPrompt |-> Field(files[SystemPath], "systemPrompt"),
    taskPrompt |-> Field(files[TasksPath], "taskPrompt"),
    modulePrompts |-> Some(LoadModulePrompts(files, OrEmpty(context.activeModules), <<>>)),
    style |-> None ]

TrimmedMemoryRaw(memory) == memory

\* memory.trim()
TrimmedMemory(memory) == Trim(memory)

\* buildPrompt: None stands for the PromptAssemblyError; `overrides` is an
\* option.
buildPrompt(files, userMessage, context, memory, overrides) ==
  IF ~IsSome(loadPrompt(files, SystemPath)) \/ ~IsSome(loadPrompt(files, TasksPath))
  THEN None
  ELSE LET defaultConfig == DefaultConfig(files, context)
           finalConfig == IF IsSome(overrides)
                            THEN mergePrompts(defaultConfig, Get(overrides))
                            ELSE defaultConfig
           modules == OrEmpty(finalConfig.modulePrompts)
       IN Some(Join(
            << SystemPart(Interpolate(finalConfig.systemPrompt)),
               SystemPart(Interpolate(finalConfig.taskPrompt)) >>
            \o [ i \in 1..Len(modules) |-> ModulePart(modules[i]) ]
            \o (IF TrimmedMemory(memory) # <<>> THEN << MemoryPart(memory) >> ELSE <<>>)
            \o << UserPart(userMessage) >>))

\* prompt.length
PromptLength(prompt) == Len(prompt)

\* The prompt files of the installation: system.json, tasks.json and the
\* module templates; "wellbeing" has no template file and the "focus"
\* template has no modulePrompt field.
Persona == <<"You", SP, "are", SP, "Zara">>

TaskGuide == <<"Track", SP, "tasks">>

PromptFiles ==
  (SystemPath :> << [ name |-> "systemPrompt", value |-> Persona ] >>)
  @@ (TasksPath :> << [ name |-> "taskPrompt", value |-> TaskGuide ] >>)
  @@ (ModulePath("languagePractice") :>
        << [ name |-> "modulePrompt", value |-> <<"blend", SP, "practice">> ] >>)
  @@ (ModulePath("coding") :>
        << [ name |-> "modulePrompt", value |-> <<"review", SP, "code">> ] >>)
  @@ (ModulePath("focus") :>
        << [ name |-> "description", value |-> <<"focus">> ] >>)

\* JSON.stringify(template) for a template of string fields.
RECURSIVE JsonFields(_)
JsonFields(template) ==
  IF template = <<>> THEN <<>>
  ELSE <<QUOTE, Head(template).name, QUOTE, ":", QUOTE>> \o Head(template).value
         \o <<QUOTE>> \o (IF Len(template) > 1 THEN <<",">> ELSE <<>>)
         \o JsonFields(Tail(template))

TemplateContentRaw(template) == <<"{">> \o JsonFields(template) \o <<"}">>

\* JSON.stringify(template).toLowerCase()
TemplateContent(template) ==
  LowerSeq(<<"{">> \o JsonFields(template) \o <<"}">>)

harmfulPatterns ==
  << <<"ignore", SP, "previous">>, <<"ignore", SP, "all", SP, "previous">>,
     <<"system", SP, "prompt">>, <<"you", SP, "are", SP, "now">>,
     <<"forget", SP, "everything">> >>

\* content.includes(pattern)
ContentIncludes(content, pattern) ==
  \E i \in 1..(Len(content) - Len(pattern) + 1) :
    SubSeq(content, i, i + Len(pattern) - 1) = pattern

MissingFieldError ==
  [ error |-> "Template must contain at least one prompt field", pattern |-> <<>> ]

HarmfulError(pattern) ==
  [ error |-> "Template contains potentially harmful pattern", pattern |-> pattern ]

validatePromptTemplate(template) ==
  LET missing == IF /\ ~Truthy(Field(template, "systemPrompt"))
                    /\ ~Truthy(Field(template, "taskPrompt"))
                    /\ ~Truthy(Field(template, "modulePrompt"))
                   THEN << MissingFieldError >> ELSE <<>>
      content == TemplateContent(template)
      found == SelectSeq(harmfulPatterns, LAMBDA q : ContentIncludes(content, q))
      errors == missing \o [ i \in 1..Len(found) |-> HarmfulError(found[i]) ]
  IN [ valid |-> Len(errors) = 0, errors |-> errors ]

(***************************************************************************)
(* LLMService (llm-service.ts).  A backend is what one fetch meets: the    *)
(* request rejects (reach = FALSE) or a response comes back with a status  *)
(* and a body; body None is a body that is not JSON, Some(data) the parsed *)
(* object, whose fields are optional.                                      *)
(***************************************************************************)
Providers == {"lmstudio", "ollama", "openai"}

ResponseOkAlways(status) == TRUE

\* response.ok
ResponseOk(status) == status \in 200..299

LLMError ==
  [ kind |-> "LLMServiceError", content |-> <<>>, usage |-> None ]

LLMResult(content, usage) ==
  [ kind |-> "ok", content |-> content, usage |-> usage ]

\* x || 0
OrZero(o) == IF IsSome(o) THEN Get(o) ELSE 0

callLMStudio(backend) ==
  IF ~backend.reach \/ ~ResponseOk(backend.status) \/ ~IsSome(backend.body)
  THEN LLMError
  ELSE LET data == Get(backend.body) IN
       IF ~IsSome(data.choices) THEN LLMError
       ELSE LLMResult(
              IF Get(data.choices) # <<>> /\ Truthy(Get(data.choices)[1].content)
                THEN Get(Get(data.choices)[1].content) ELSE <<>>,
              IF IsSome(data.usage)
                THEN Some([ promptTokens |-> OrZero(Get(data.usage).prompt_tokens),
                            completionTokens |-> OrZero(Get(data.usage).completion_tokens),
                            totalTokens |-> OrZero(Get(data.usage).total_tokens) ])
                ELSE None)

callOllama(backend) ==
  IF ~backend.reach \/ ~ResponseOk(backend.status) \/ ~IsSome(backend.body)
  THEN LLMError
  ELSE LET data == Get(backend.body) IN
       LLMResult(
         IF Truthy(data.response) THEN Get(data.response) ELSE <<>>,
         IF OrZero(data.eval_count) # 0
           THEN Some([ promptTokens |-> 0,
                       completionTokens |-> Get(data.eval_count),
                       totalTokens |-> Get(data.eval_count) ])
           ELSE None)

\* generateResponse: every error inside the switch leaves as LLMServiceError.
generateResponse(provider, backend) ==
  CASE provider = "lmstudio" -> callLMStudio(backend)
    [] provider = "ollama" -> callOllama(backend)
    [] OTHER -> LLMError

\* isAvailable: the health probe; a rejected fetch gives false.
isAvailable(provider, probe) ==
  IF provider \in {"lmstudio", "ollama"}
  THEN probe.reach /\ ResponseOk(probe.status)
  ELSE FALSE

\* listAvailablePrompts on a prompts directory: [dir, system, tasks,
\* modulesDir, modules].  readdirSync throwing ends the listing with what
\* was found before.
listAvailablePrompts(store) ==
  IF ~store.dir THEN <<>>
  ELSE (IF store.system THEN << SystemPath >> ELSE <<>>)
       \o (IF store.tasks THEN << TasksPath >> ELSE <<>>)
       \o (IF store.modulesDir = "ok"
             THEN LET json == SelectSeq(store.modules, LAMBDA f : f.json)
                  IN [ i \in 1..Len(json) |-> ModulePath(json[i].name) ]
             ELSE <<>>)

isReadyProbeOnly(llmAvailable, listing) ==
  [ ready |-> llmAvailable,
    issues |-> IF llmAvailable THEN <<>> ELSE << "LLM service is not available" >> ]

\* isReady: `listing` is None when listAvailablePrompts throws.
isReady(llmAvailable, listing) ==
  LET issues ==
        (IF ~llmAvailable THEN << "LLM service is not available" >> ELSE <<>>)
        \o (IF ~IsSome(listing) THEN << "Failed to load prompt templates" >>
            ELSE IF Len(Get(listing)) = 0 THEN << "No prompt templates found" >>
            ELSE <<>>)
  IN [ ready |-> Len(issues) = 0, issues |-> issues ]

(***************************************************************************)
(* POST /api/chat (app/api/chat/route.ts): the request body is None when   *)
(* it is not JSON, else an object with optional userId and message.        *)
(***************************************************************************)
\* The number of characters of a chunk; "x2000" and "x2001" stand for words
\* of 2000 and 2001 characters.
Chars(c) ==
  CASE c = "x2000" -> 2000
    [] c = "x2001" -> 2001
    [] c = "discussing" -> 10
    [] c = "code" -> 4
    [] c = "Hello" -> 5
    [] OTHER -> 1

\* String.length
RECURSIVE StringLength(_)
StringLength(text) ==
  IF text = <<>> THEN 0 ELSE Chars(Head(text)) + StringLength(Tail(text))

MaxMessageLength == 2000

\* ChatRequestSchema.parse(body) does not throw.
ValidChatRequest(body) ==
  /\ IsSome(body.userId) /\ Get(body.userId) # ""
  /\ IsSome(body.message)
  /\ StringLength(Get(body.message)) >= 1
  /\ StringLength(Get(body.message)) <= MaxMessageLength

RouteAnswer(status, error, issues, called) ==
  [ status |-> status, error |-> error, issues |-> issues, called |-> called ]

chatRouteUnchecked(body, readiness) ==
  IF ~IsSome(body) THEN RouteAnswer(500, "Internal server error", <<>>, FALSE)
  ELSE IF ~ValidChatRequest(Get(body))
  THEN RouteAnswer(400, "Invalid request data", <<>>, FALSE)
  ELSE RouteAnswer(200, "", <<>>, TRUE)

\* The route up to the call of processMessage: `readiness` is what isReady
\* returns; `called` says that processMessage is reached.
chatRoute(body, readiness) ==
  IF ~IsSome(body) THEN RouteAnswer(500, "Internal server error", <<>>, FALSE)
  ELSE IF ~ValidChatRequest(Get(body))
  THEN RouteAnswer(400, "Invalid request data", <<>>, FALSE)
  ELSE IF ~readiness.ready
  THEN RouteAnswer(503, "Service not ready", readiness.issues, FALSE)
  ELSE RouteAnswer(200, "", <<>>, TRUE)

(***************************************************************************)
(* processMessage.  A fault names the step that throws; for the steps that *)
(* make several store calls, `done` is the number made before the throw.   *)
(***************************************************************************)
Apology == <<"I'm sorry, I'm having trouble processing that right now. Could you try again?">>

NoFault == [ step |-> "none", done |-> 0 ]

PMFaults ==
  { NoFault }
    \cup { [ step |-> s, done |-> 0 ] :
             s \in {"memories", "prompt", "llm", "derive", "conv_user", "conv_zara"} }
    \cup { [ step |-> s, done |-> d ] : s \in {"context", "store"}, d \in 0..4 }

CatchResultRethrow(userId, responseTime) ==
  [ kind |-> "thrown", response |-> <<>>, context |-> EmptyContext(userId),
    promptLength |-> 0, responseTime |-> None ]

\* The catch block of processMessage.
CatchResult(userId, responseTime) ==
  [ kind |-> "fallback", response |-> Apology, context |-> EmptyContext(userId),
    promptLength |-> 0, responseTime |-> Some(responseTime) ]

\* The return of the try block.
TryResult(reply, updatedContext, prompt, responseTime) ==
  [ kind |-> "ok", response |-> reply, context |-> updatedContext,
    promptLength |-> PromptLength(prompt), responseTime |-> Some(responseTime) ]

\* The user's record written before the model is called.
PMStepsRecordFirst ==
  << "context", "memories", "prompt", "conv_user", "llm", "derive", "conv_zara", "store" >>

PMStepsPersistFirst ==
  << "context", "memories", "prompt", "conv_user", "conv_zara", "llm", "derive", "store" >>

\* The steps in the order of the try block.
PMSteps ==
  << "context", "memories", "prompt", "llm", "derive", "conv_user", "conv_zara", "store" >>

StepIndex(step) ==
  IF step = "none" THEN Len(PMSteps) + 1
  ELSE CHOOSE i \in 1..Len(PMSteps) : PMSteps[i] = step

\* Step `step` ran to its end: the fault is at a later step, or nowhere.
Ran(fault, step) == StepIndex(step) < StepIndex(fault.step)

\* The outcomes of one processMessage call: [mem, conv, context, prompt,
\* result]; `overrides` is an option, `prompt` the text built for the model.
processMessage(mem, conv, userId, userMessage, overrides, reply, fault, now, elapsed) ==
  LET read == getConversationContext(mem, userId,
                IF fault.step = "context" THEN fault.done ELSE Len(ContextKeys), now)
      context == read.context
      memories == getRelevantMemories(read.mem, userId, context, DefaultLimit, now)
      prompt == Get(buildPrompt(PromptFiles, userMessage, context,
                                formatMemoriesForPrompt(memories), overrides))
      updated == updateContextFromMessage(context, userMessage, reply)
      conv1 == IF Ran(fault, "conv_user")
                 THEN storeConversation(conv, userId, userMessage, "user") ELSE conv
      conv2 == IF Ran(fault, "conv_zara")
                 THEN storeConversation(conv1, userId, reply, "zara") ELSE conv1
      mems == IF Ran(fault, "conv_zara")
                THEN storeConversationContext(read.mem, userId, updated,
                       IF fault.step = "store" THEN fault.done
                       ELSE Len(ContextWrites(updated)))
                ELSE { read.mem }
  IN { [ mem |-> m, conv |-> conv2, context |-> context, prompt |-> prompt,
         result |-> IF fault.step = "none"
                      THEN TryResult(reply, updated, prompt, elapsed)
                      ELSE CatchResult(userId, elapsed) ] : m \in mems }

\* A fault a call can meet: a store fault needs a write left to throw.
FaultPossible(mem, userId, userMessage, reply, fault, now) ==
  fault.step = "store" =>
    fault.done < Len(ContextWrites(updateContextFromMessage(
                   getConversationContext(mem, userId, Len(ContextKeys), now).context,
                   userMessage, reply)))

(***************************************************************************)
(* getDebugView: the prompt service builds the prompt again and puts a     *)
(* header in front; the chat service reads the context and the memories    *)
(* for it at the time it is called, and turns an error into a text.        *)
(***************************************************************************)
DebugHeader == <<"Zara's Assembled Prompt", NL2>>

DebugError == <<"Error generating debug view">>

\* PromptService.getDebugView: None stands for the error buildPrompt throws.
promptGetDebugView(files, userMessage, context, memory, overrides) ==
  IF IsSome(buildPrompt(files, userMessage, context, memory, overrides))
  THEN Some(DebugHeader \o Get(buildPrompt(files, userMessage, context, memory, overrides)))
  ELSE None

\* ChatService.getDebugView: [mem, view].  `thrown`: buildPrompt throws.
getDebugView(mem, userId, userMessage, overrides, thrown, now) ==
  LET read == getConversationContext(mem, userId, Len(ContextKeys), now)
      memories == getRelevantMemories(read.mem, userId, read.context, DefaultLimit, now)
      view == promptGetDebugView(PromptFiles, userMessage, read.context,
                                 formatMemoriesForPrompt(memories), overrides)
  IN [ mem |-> read.mem,
       view |-> IF thrown \/ ~IsSome(view) THEN DebugError ELSE Get(view) ]

(***************************************************************************)
(* resetConversation: deletes the "conversation" memories among those that *)
(* getRelevantMemories returns for the empty context; true unless a store  *)
(* call throws.  `done` deletions are made before the fault.               *)
(***************************************************************************)
RECURSIVE DeleteAll(_, _, _)
DeleteAll(mem, rows, n) ==
  IF n = 0 \/ rows = <<>> THEN mem
  ELSE DeleteAll(deleteMemory(mem, Head(rows).id), Tail(rows), n - 1)

ConversationMemories(mem, userId, now) ==
  SelectSeq(getRelevantMemories(mem, userId, EmptyContext(userId), DefaultLimit, now),
            LAMBDA m : m.type = "conversation")

resetConversation(mem, userId, fault, now) ==
  IF fault.step = "none"
  THEN [ mem |-> DeleteAll(mem, ConversationMemories(mem, userId, now),
                           Len(ConversationMemories(mem, userId, now))),
         result |-> TRUE ]
  ELSE [ mem |-> DeleteAll(mem, ConversationMemories(mem, userId, now), fault.done),
         result |-> FALSE ]

ResetFaults(mem, userId, now) ==
  { NoFault } \cup { [ step |-> "memories", done |-> 0 ] }
    \cup { [ step |-> "delete", done |-> d ] :
             d \in 0..(Len(ConversationMemories(mem, userId, now)) - 1) }

\* getConversationHistory: the records newest first, [] when the read throws.
getConversationHistory(conv, userId, limit, fault) ==
  IF fault.step = "none" THEN getRecentConversations(conv, userId, limit) ELSE <<>>


\* A processMessage call that has not started.
Idle ==
  [ pc |-> "idle", userId |-> "", message |-> <<>>, key |-> 0,
    context |-> EmptyContext(""), updated |-> EmptyContext(""), writes |-> <<>>,
    prompt |-> <<>>, found |-> None, result |-> None ]

(***************************************************************************)
(* State.                                                                  *)
(***************************************************************************)
VARIABLES
  memory,        \* the memory table, oldest update first
  conversation,  \* the conversation table, oldest first
  tasks,         \* the task table
  now,           \* the clock (Date.now())
  calls,         \* the number of counted handler calls made so far
  last,          \* the latest handler call: its arguments and what it returned
  topicLog,      \* per user, the topics persisted since the context was empty
  inflight       \* the processMessage calls under way, step by step (SpecRace)

vars == << memory, conversation, tasks, now, calls, last, topicLog, inflight >>

Users == {"u1", "u2"}

HistoryLimit == 50

Init ==
  /\ memory = <<>>
  /\ conversation = <<>>
  /\ tasks = <<>>
  /\ now = 0
  /\ calls = 0
  /\ last = [ op |-> "none" ]
  /\ topicLog = [ u \in Users |-> <<>> ]
  /\ inflight = [ calls |-> [ id \in 1..MaxRaceCalls |-> Idle ], order |-> <<>> ]

HasRow(mem, userId, key) == Matching(mem, userId, key, Some("conversation")) # {}

\* The topics persisted for a user: extended when the recent_topics row is
\* written, empty again when the row is gone.
TopicLogAfter(mem, userId, written, log) ==
  IF ~HasRow(mem, userId, "recent_topics") THEN <<>> ELSE log \o written

\* The recent_topics write is among the first `done` writes of the context.
TopicsWritten(context, done) ==
  \E i \in 1..done : i <= Len(ContextWrites(context))
                       /\ ContextWrites(context)[i].key = "recent_topics"

Tick ==
  /\ now < MaxTime
  /\ now' = now + 1
  /\ UNCHANGED << memory, conversation, tasks, calls, last, topicLog, inflight >>

\* POST /api/chat -> chatService.processMessage, at most `limit` times.
ProcessMessage(limit, userId, userMessage, reply, fault, elapsed) ==
  /\ calls < limit
  /\ FaultPossible(memory, userId, userMessage, reply, fault, now)
  /\ \E o \in processMessage(memory, conversation, userId, userMessage, None, reply,
                             fault, now, elapsed) :
       /\ memory' = o.mem
       /\ conversation' = o.conv
       /\ last' = [ op |-> "processMessage", userId |-> userId,
                    message |-> userMessage, reply |-> reply, fault |-> fault,
                    context |-> o.context, result |-> o.result ]
       /\ topicLog' = [ topicLog EXCEPT ![userId] =
            TopicLogAfter(o.mem, userId,
              IF Ran(fault, "conv_zara")
                   /\ TopicsWritten(updateContextFromMessage(o.context, userMessage, reply),
                        IF fault.step = "store" THEN fault.done ELSE Len(ContextKeys))
                THEN TopicsOf(userMessage) ELSE <<>>,
              @) ]
  /\ calls' = calls + 1
  /\ UNCHANGED << tasks, now, inflight >>

ResetConversation(userId, fault) ==
  /\ fault \in ResetFaults(memory, userId, now)
  /\ memory' = resetConversation(memory, userId, fault, now).mem
  /\ last' = [ op |-> "resetConversation", userId |-> userId, fault |-> fault,
               result |-> resetConversation(memory, userId, fault, now).result ]
  /\ topicLog' = [ topicLog EXCEPT ![userId] =
                     TopicLogAfter(memory', userId, <<>>, @) ]
  /\ UNCHANGED << conversation, tasks, now, calls, inflight >>

GetConversationHistory(userId, fault) ==
  /\ last' = [ op |-> "getConversationHistory", userId |-> userId, fault |-> fault,
               result |-> getConversationHistory(conversation, userId, HistoryLimit, fault) ]
  /\ UNCHANGED << memory, conversation, tasks, now, calls, topicLog, inflight >>

\* Without expiring rows a context read that throws has deleted nothing,
\* whichever of its getMemory calls threw; a context store throws at its first
\* write or after it.
MainFaults ==
  { f \in PMFaults : f.step \in {"context", "store"} => f.done \in
                       (IF f.step = "context" THEN {0} ELSE {0, 1}) }

\* The chats of the main specification: a message and the model's reply.
Chats ==
  { << MsgReport, <<"sure">> >>, << MsgReport, <<"stressed">> >>,
    << MsgTopics, <<"sure">> >>, << MsgCode, <<"sure">> >>,
    << MsgBlank, <<"sure">> >>, << MsgPlural, <<"stressed">> >>,
    << MsgTired, <<"sure">> >> }

\* Date.now() - startTime of a call.
Elapsed == {1}

Next ==
  \/ \E u \in Users, c \in Chats, f \in MainFaults, e \in Elapsed :
       ProcessMessage(MaxCalls, u, c[1], c[2], f, e)
  \/ \E u \in Users, f \in { NoFault, [ step |-> "memories", done |-> 0 ],
                             [ step |-> "delete", done |-> 0 ] } :
       ResetConversation(u, f)
  \/ \E u \in Users, f \in { NoFault, [ step |-> "read", done |-> 0 ] } :
       GetConversationHistory(u, f)

Spec == Init /\ [][Next]_vars

(***************************************************************************)
(* SpecTopics: successive chats whose messages carry topics.               *)
(***************************************************************************)
TopicMessages == { MsgTopics, MsgCode, MsgBlank }

TopicFaults == { NoFault, [ step |-> "llm", done |-> 0 ],
                 [ step |-> "store", done |-> 0 ] }

NextTopics ==
  \/ \E u \in Users, m \in TopicMessages, f \in TopicFaults :
       ProcessMessage(MaxTopicCalls, u, m, <<"sure">>, f, 1)
  \/ \E u \in Users : ResetConversation(u, NoFault)

SpecTopics == Init /\ [][NextTopics]_vars

(***************************************************************************)
(* The memory service called directly (SpecMem).                           *)
(***************************************************************************)
\* The (userId, key, type) triples written: each component varies.
MemTriples ==
  { << "u1", "note", "general" >>, << "u1", "note", "preference" >>,
    << "u1", "theme", "general" >>, << "u2", "note", "general" >> }

\* The values written, with the expiresAt argument (None: not given).
MemValues ==
  { [ value |-> <<"a">>, expiresAt |-> None ],
    [ value |-> <<"b">>, expiresAt |-> Some(0) ] }

StoreMemory(userId, key, value, type, expiresAt) ==
  /\ calls < MaxWrites
  /\ \E o \in storeMemory(memory, userId, key, value, type, expiresAt) :
       /\ memory' = o.mem
       /\ last' = [ op |-> "storeMemory", userId |-> userId, key |-> key,
                    type |-> type, value |-> value, expiresAt |-> expiresAt,
                    prior |-> { memory[i].id : i \in Matching(memory, userId, key, Some(type)) },
                    row |-> o.row ]
  /\ calls' = calls + 1
  /\ UNCHANGED << conversation, tasks, now, topicLog, inflight >>

\* getMemory; `match` is the row findFirst returned, `after` the expired row a
\* getMemory call with the same arguments deleted just before this one.
GetMemory(userId, key, type) ==
  LET r == getMemory(memory, userId, key, type, now)
      hits == Matching(memory, userId, key, type)
      args == << userId, key, type >>
  IN /\ memory' = r.mem
     /\ last' = [ op |-> "getMemory", userId |-> userId, key |-> key, type |-> type,
                  at |-> now, result |-> r.result,
                  match |-> IF hits = {} THEN None ELSE Some(memory[Max(hits)]),
                  deleted |-> r.expiredHit,
                  after |-> IF last.op = "getMemory" /\ last.deleted
                                 /\ << last.userId, last.key, last.type >> = args
                              THEN last.match ELSE None ]
     /\ UNCHANGED << conversation, tasks, now, calls, topicLog, inflight >>

\* The contexts handed to getRelevantMemories.
RelevanceContexts(userId) ==
  { EmptyContext(userId),
    [ EmptyContext(userId) EXCEPT !.activeModules = Some(<<"coding">>) ],
    [ EmptyContext(userId) EXCEPT !.recentTopics = Some(<<"a">>) ] }

GetRelevantMemories(userId, context, limit) ==
  /\ last' = [ op |-> "getRelevantMemories", userId |-> userId, at |-> now,
               limit |-> limit, context |-> context,
               result |-> getRelevantMemories(memory, userId, context, limit, now) ]
  /\ UNCHANGED << memory, conversation, tasks, now, calls, topicLog, inflight >>

NextMem ==
  \/ \E t \in MemTriples, v \in MemValues :
       StoreMemory(t[1], t[2], v.value, t[3], v.expiresAt)
  \/ \E t \in MemTriples, type \in {TRUE, FALSE} :
       GetMemory(t[1], t[2], IF type THEN Some(t[3]) ELSE None)
  \/ \E u \in Users, limit \in {1, DefaultLimit} :
       \E c \in RelevanceContexts(u) : GetRelevantMemories(u, c, limit)
  \/ Tick

SpecMem == Init /\ [][NextMem]_vars

(***************************************************************************)
(* The conversation context stored and read back (SpecCtx).                *)
(***************************************************************************)
\* The contexts stored: every populated field holds a non-empty value.
CtxInputs(userId) ==
  { EmptyContext(userId),
    [ EmptyContext(userId) EXCEPT !.mood = Some(<<"happy">>) ],
    [ userId |-> userId, currentTask |-> Some(<<"report">>),
      mood |-> Some(<<"stressed">>), energy |-> Some(<<"low">>),
      recentTopics |-> Some(<<"chess">>), activeModules |-> Some(<<"coding">>) ] }

StoreConversationContext(userId, context) ==
  /\ memory' \in storeConversationContext(memory, userId, context,
                                          Len(ContextWrites(context)))
  /\ last' = [ op |-> "storeConversationContext", userId |-> userId,
               context |-> context ]
  /\ UNCHANGED << conversation, tasks, now, calls, topicLog, inflight >>

\* getConversationContext; `stored` is the context storeConversationContext
\* wrote for the same user in the call just before this one.
GetConversationContext(userId) ==
  /\ memory' = getConversationContext(memory, userId, Len(ContextKeys), now).mem
  /\ last' = [ op |-> "getConversationContext", userId |-> userId,
               result |-> getConversationContext(memory, userId, Len(ContextKeys), now).context,
               stored |-> IF last.op = "storeConversationContext" /\ last.userId = userId
                            THEN Some(last.context) ELSE None ]
  /\ UNCHANGED << conversation, tasks, now, calls, topicLog, inflight >>

NextCtx ==
  \/ \E u \in Users : \E c \in CtxInputs(u) : StoreConversationContext(u, c)
  \/ \E u \in Users : GetConversationContext(u)

SpecCtx == Init /\ [][NextCtx]_vars

(***************************************************************************)
(* Reset of a user with other memories (SpecReset).                        *)
(***************************************************************************)
NoteKeys ==
  << "note1", "note2", "note3", "note4", "note5", "note6", "note7", "note8",
     "note9", "note10", "note11", "note12" >>

Notes(mem, userId) ==
  { i \in 1..Len(mem) : mem[i].userId = userId /\ mem[i].type = "preference" }

\* storeMemory(userId, <a new key>, value, 'preference')
StoreNote(userId) ==
  /\ Cardinality(Notes(memory, userId)) < MaxExtra
  /\ Cardinality(Notes(memory, userId)) < Len(NoteKeys)
  /\ \E o \in storeMemory(memory, userId,
                          NoteKeys[Cardinality(Notes(memory, userId)) + 1],
                          <<"a">>, "preference", None) :
       /\ memory' = o.mem
       /\ last' = [ op |-> "storeMemory", userId |-> userId, key |-> o.row.key,
                    type |-> "preference", value |-> <<"a">>, prior |-> {},
                    row |-> o.row ]
  /\ UNCHANGED << conversation, tasks, now, calls, topicLog, inflight >>

NextReset ==
  \/ StoreConversationContext("u1",
       [ EmptyContext("u1") EXCEPT !.currentTask = Some(<<"finish">>) ])
  \/ StoreNote("u1")
  \/ ResetConversation("u1", NoFault)
  \/ GetConversationContext("u1")

SpecReset == Init /\ [][NextReset]_vars

(***************************************************************************)
(* The task routes (SpecTask).  A request body is a record of optional     *)
(* fields; a task row: id, title, priority, status, completedAt.           *)
(***************************************************************************)
Priorities == {"low", "medium", "high"}

createTaskSchemaPassthrough(body) ==
  IF ~IsSome(body.title) \/ Get(body.title) = ""
       \/ (IsSome(body.priority) /\ Get(body.priority) \notin Priorities)
  THEN None
  ELSE Some([ title |-> body.title,
              priority |-> IF IsSome(body.priority) THEN body.priority ELSE Some("medium"),
              status |-> body.status ])

\* createTaskSchema.parse: title required and not '', priority defaults to
\* medium, keys the schema does not name (status, completedAt) are stripped.
\* None is the ZodError (400).
createTaskSchema(body) ==
  IF ~IsSome(body.title) \/ Get(body.title) = ""
       \/ (IsSome(body.priority) /\ Get(body.priority) \notin Priorities)
  THEN None
  ELSE Some([ title |-> body.title,
              priority |-> IF IsSome(body.priority) THEN body.priority ELSE Some("medium"),
              status |-> None ])

\* updateTaskSchema.parse: every field optional, status one of three values,
\* other keys (completedAt) stripped.  None is the ZodError.
updateTaskSchema(body) ==
  IF (IsSome(body.title) /\ Get(body.title) = "")
       \/ (IsSome(body.priority) /\ Get(body.priority) \notin Priorities)
       \/ (IsSome(body.status)
             /\ Get(body.status) \notin {"pending", "in_progress", "completed"})
  THEN None
  ELSE Some([ title |-> body.title, priority |-> body.priority,
              status |-> body.status ])

NewTaskId(ts) == Min({ n \in 1..(Len(ts) + 1) : \A i \in 1..Len(ts) : ts[i].id # n })

\* prisma.task.create({data: {...validatedData, userId}}): the columns the data
\* does not give take the defaults of the table (status pending, no completedAt).
createTask(ts, data) ==
  Append(ts, [ id |-> NewTaskId(ts), title |-> Get(data.title),
               priority |-> Get(data.priority),
               status |-> IF IsSome(data.status) THEN Get(data.status) ELSE "pending",
               completedAt |-> None ])

\* PUT /api/tasks/[id]: the validated fields that are given, and with a status
\* also completedAt: the time of the call for completed, null otherwise.
updateTask(task, data, at) ==
  [ task EXCEPT
      !.title = IF IsSome(data.title) THEN Get(data.title) ELSE @,
      !.priority = IF IsSome(data.priority) THEN Get(data.priority) ELSE @,
      !.status = IF IsSome(data.status) THEN Get(data.status) ELSE @,
      !.completedAt = IF ~IsSome(data.status) THEN @
                      ELSE IF Get(data.status) = "completed" THEN Some(at) ELSE None ]

\* The body TaskItem.handleStatusToggle sends.
handleStatusToggle(task, at) ==
  LET newStatus == IF task.status = "completed" THEN "pending" ELSE "completed"
  IN [ title |-> None, priority |-> None, status |-> Some(newStatus),
       completedAt |-> Some(IF newStatus = "completed" THEN Some(at) ELSE None) ]

\* The bodies of POST and PUT requests.
TaskBodies ==
  { [ title |-> t, priority |-> p, status |-> st, completedAt |-> None ] :
      t \in { None, Some("write") }, p \in { None },
      st \in { None, Some("pending"), Some("in_progress"), Some("completed"),
               Some("cancelled") } }

CreateTask(body) ==
  /\ Len(tasks) < MaxTasks
  /\ tasks' = IF IsSome(createTaskSchema(body))
                THEN createTask(tasks, Get(createTaskSchema(body))) ELSE tasks
  /\ last' = [ op |-> "createTask", body |-> body, at |-> now,
               ok |-> IsSome(createTaskSchema(body)) ]
  /\ UNCHANGED << memory, conversation, now, calls, topicLog, inflight >>

\* One PUT request on the task at position i.
PutTask(i, body) ==
  /\ tasks' = IF IsSome(updateTaskSchema(body))
                THEN [ tasks EXCEPT ![i] = updateTask(@, Get(updateTaskSchema(body)), now) ]
                ELSE tasks
  /\ last' = [ op |-> "updateTask", id |-> tasks[i].id, body |-> body, at |-> now,
               before |-> tasks[i], ok |-> IsSome(updateTaskSchema(body)) ]
  /\ UNCHANGED << memory, conversation, now, calls, topicLog, inflight >>

UpdateTask(i, body) == PutTask(i, body)

ToggleStatus(i) == PutTask(i, handleStatusToggle(tasks[i], now))

NextTask ==
  \/ \E b \in TaskBodies : CreateTask(b)
  \/ \E i \in 1..Len(tasks), b \in TaskBodies : UpdateTask(i, b)
  \/ \E i \in 1..Len(tasks) : ToggleStatus(i)
  \/ Tick

SpecTask == Init /\ [][NextTask]_vars

(***************************************************************************)
(* The prompt service on its own (SpecPrompt): each action applies one of  *)
(* its functions to inputs drawn from the sets below and records the call. *)
(***************************************************************************)
Formal == <<"You", SP, "are", SP, "formal">>

\* The default configurations handed to mergePrompts.
PromptDefaults ==
  { [ systemPrompt |-> Some(Persona), taskPrompt |-> Some(TaskGuide),
      modulePrompts |-> None, style |-> None ],
    [ systemPrompt |-> Some(Persona), taskPrompt |-> None,
      modulePrompts |-> Some(<< [ name |-> "languagePractice", value |-> <<"practice">> ],
                                [ name |-> "wellbeing", value |-> <<"check">> ] >>),
      style |-> Some(<< [ name |-> "tone", value |-> "casual" ],
                        [ name |-> "humour", value |-> "light" ] >>) ] }

\* The overrides: every field absent or present; a scalar may be ''.
PromptOverrides ==
  [ systemPrompt : { None, Some(<<>>), Some(Formal) },
    taskPrompt : { None, Some(<<"Plan">>) },
    modulePrompts : { None, Some(<<>>),
                      Some(<< [ name |-> "languagePractice", value |-> <<"Spanish">> ] >>),
                      Some(<< [ name |-> "coding", value |-> <<"debug">> ] >>) },
    style : { None, Some(<< [ name |-> "tone", value |-> "formal" ] >>) } ]

MergePrompts(defaults, overrides) ==
  /\ calls < MaxPromptCalls
  /\ calls' = calls + 1
  /\ last' = [ op |-> "mergePrompts", defaults |-> defaults, overrides |-> overrides,
               result |-> mergePrompts(defaults, overrides) ]
  /\ UNCHANGED << memory, conversation, tasks, now, topicLog, inflight >>

\* The inputs of buildPrompt.
PromptModules ==
  { None, Some(<<"languagePractice">>), Some(<<"coding", "languagePractice">>),
    Some(<<"languagePractice", "languagePractice">>),
    Some(<<"wellbeing", "coding">>), Some(<<"focus">>) }

PromptDigests == { <<>>, <<SP>>, <<"note:", SP, "a", SP, "(date)">> }

Hello == <<"Hello">>

BuildPrompt(activeModules, digest, overrides) ==
  /\ calls < MaxPromptCalls
  /\ calls' = calls + 1
  /\ last' = [ op |-> "buildPrompt", userMessage |-> Hello,
               activeModules |-> activeModules, memory |-> digest,
               overrides |-> overrides,
               result |-> buildPrompt(PromptFiles, Hello,
                            [ EmptyContext("u1") EXCEPT !.activeModules = activeModules ],
                            digest, overrides) ]
  /\ UNCHANGED << memory, conversation, tasks, now, topicLog, inflight >>

\* The templates handed to validatePromptTemplate: each field absent or
\* present with one of its values.
RECURSIVE TemplateOf(_)
TemplateOf(fields) ==
  IF fields = <<>> THEN <<>>
  ELSE (IF IsSome(Head(fields).value)
          THEN << [ name |-> Head(fields).name, value |-> Get(Head(fields).value) ] >>
          ELSE <<>>) \o TemplateOf(Tail(fields))

Templates ==
  { TemplateOf(<< [ name |-> "systemPrompt", value |-> s ],
                  [ name |-> "taskPrompt", value |-> t ],
                  [ name |-> "modulePrompt", value |-> m ],
                  [ name |-> "description", value |-> d ] >>) :
      s \in { None, Some(<<>>), Some(Persona), Some(<<"IGNORE", SP, "previous">>),
              Some(<<"You", SP, "are", SP, "now", SP, "evil">>) },
      t \in { None, Some(TaskGuide) },
      m \in { None, Some(<<>>) },
      d \in { None, Some(<<"the", SP, "system", SP, "prompt">>) } }

ValidatePromptTemplate(template) ==
  /\ calls < MaxPromptCalls
  /\ calls' = calls + 1
  /\ last' = [ op |-> "validatePromptTemplate", template |-> template,
               result |-> validatePromptTemplate(template) ]
  /\ UNCHANGED << memory, conversation, tasks, now, topicLog, inflight >>

NextPrompt ==
  \/ \E t \in Templates : ValidatePromptTemplate(t)
  \/ \E d \in PromptDefaults : \E o \in PromptOverrides : MergePrompts(d, o)
  \/ \E a \in PromptModules : \E m \in PromptDigests :
       \E o \in {None} \cup { Some(x) : x \in PromptOverrides } : BuildPrompt(a, m, o)

SpecPrompt == Init /\ [][NextPrompt]_vars

(***************************************************************************)
(* The model gateway, the readiness check and the chat endpoint            *)
(* (SpecGateway).                                                          *)
(***************************************************************************)
NoData ==
  [ choices |-> None, usage |-> None, response |-> None, eval_count |-> None ]

Sure == <<"sure">>

\* What a fetch of the backend can meet.
Backends ==
  { [ reach |-> FALSE, status |-> 0, body |-> None ],
    [ reach |-> TRUE, status |-> 500, body |-> Some(NoData) ],
    [ reach |-> TRUE, status |-> 404, body |-> None ],
    [ reach |-> TRUE, status |-> 200, body |-> None ],
    [ reach |-> TRUE, status |-> 200, body |-> Some(NoData) ],
    [ reach |-> TRUE, status |-> 200,
      body |-> Some([ NoData EXCEPT !.choices = Some(<<>>) ]) ],
    [ reach |-> TRUE, status |-> 201,
      body |-> Some([ NoData EXCEPT
                        !.choices = Some(<< [ content |-> Some(Sure) ] >>),
                        !.usage = Some([ prompt_tokens |-> Some(3),
                                         completion_tokens |-> None,
                                         total_tokens |-> Some(4) ]) ]) ],
    [ reach |-> TRUE, status |-> 200,
      body |-> Some([ NoData EXCEPT
                        !.choices = Some(<< [ content |-> Some(Sure) ] >>),
                        !.response = Some(Sure), !.eval_count = Some(2) ]) ] }

GenerateResponse(provider, backend) ==
  /\ calls < MaxGatewayCalls
  /\ calls' = calls + 1
  /\ last' = [ op |-> "generateResponse", provider |-> provider, backend |-> backend,
               result |-> generateResponse(provider, backend) ]
  /\ UNCHANGED << memory, conversation, tasks, now, topicLog, inflight >>

\* What the health probe can meet.
Probes ==
  { [ reach |-> FALSE, status |-> 0 ], [ reach |-> TRUE, status |-> 200 ],
    [ reach |-> TRUE, status |-> 503 ] }

ModuleFiles ==
  << [ name |-> "languagePractice", json |-> TRUE ],
     [ name |-> "notes.txt", json |-> FALSE ] >>

\* The states of the prompts directory.
Stores ==
  { [ dir |-> FALSE, system |-> FALSE, tasks |-> FALSE, modulesDir |-> "missing",
      modules |-> <<>> ],
    [ dir |-> TRUE, system |-> FALSE, tasks |-> FALSE, modulesDir |-> "missing",
      modules |-> <<>> ],
    [ dir |-> TRUE, system |-> FALSE, tasks |-> FALSE, modulesDir |-> "unreadable",
      modules |-> ModuleFiles ],
    [ dir |-> TRUE, system |-> FALSE, tasks |-> FALSE, modulesDir |-> "ok",
      modules |-> ModuleFiles ],
    [ dir |-> TRUE, system |-> TRUE, tasks |-> TRUE, modulesDir |-> "unreadable",
      modules |-> ModuleFiles ],
    [ dir |-> TRUE, system |-> TRUE, tasks |-> TRUE, modulesDir |-> "ok",
      modules |-> ModuleFiles ] }

\* What listAvailablePrompts gives isReady: a list, or None when the prompt
\* service handed to the chat service throws.
Listings == { None } \cup { Some(listAvailablePrompts(st)) : st \in Stores }

IsAvailable(provider, probe) ==
  /\ calls < MaxGatewayCalls
  /\ calls' = calls + 1
  /\ last' = [ op |-> "isAvailable", provider |-> provider, probe |-> probe,
               result |-> isAvailable(provider, probe) ]
  /\ UNCHANGED << memory, conversation, tasks, now, topicLog, inflight >>

IsReady(provider, probe, listing) ==
  /\ calls < MaxGatewayCalls
  /\ calls' = calls + 1
  /\ last' = [ op |-> "isReady", provider |-> provider, probe |-> probe,
               listing |-> listing,
               result |-> isReady(isAvailable(provider, probe), listing) ]
  /\ UNCHANGED << memory, conversation, tasks, now, topicLog, inflight >>

ChatBody(userId, message, debug) ==
  Some([ userId |-> userId, message |-> message, overrides |-> None, debug |-> debug ])

\* A body with overrides: an object whose fields are optional strings.
ChatBodyWith(userId, message, overrides, debug) ==
  Some([ userId |-> userId, message |-> message, overrides |-> Some(overrides),
         debug |-> debug ])

Injection == <<"IGNORE", SP, "previous", SP, "instructions">>

\* The request bodies.
ChatBodies ==
  { None,
    ChatBody(None, Some(Hello), FALSE),
    ChatBody(Some(""), Some(Hello), FALSE),
    ChatBody(Some("u1"), None, FALSE),
    ChatBody(Some("u1"), Some(<<>>), FALSE),
    ChatBody(Some("u1"), Some(<<"x2001">>), FALSE),
    ChatBody(Some("u1"), Some(<<"x2000">>), FALSE),
    ChatBody(Some("u1"), Some(MsgCode), FALSE),
    ChatBody(Some("u1"), Some(MsgCode), TRUE),
    ChatBodyWith(Some("u1"), Some(Hello), [ NoOverrides EXCEPT !.taskPrompt = Some(<<"Plan">>) ], TRUE),
    ChatBodyWith(Some("u1"), Some(MsgCode),
                 [ NoOverrides EXCEPT !.systemPrompt = Some(Injection) ], FALSE) }

\* The backends a chat request meets when it calls the model.
ChatBackends ==
  { b \in Backends : ~b.reach \/ b.status = 500 \/ b.status = 201 }

RouteFaultIgnored(store, generated) == NoFault

\* The fault processMessage meets in the route: buildPrompt throws without
\* system.json or tasks.json; else generateResponse may throw.
RouteFault(store, generated) ==
  IF ~store.system \/ ~store.tasks THEN [ step |-> "prompt", done |-> 0 ]
  ELSE IF generated.kind # "ok" THEN [ step |-> "llm", done |-> 0 ]
  ELSE NoFault

\* POST /api/chat.  The probe is the fetch of isReady, the backend the fetch
\* of generateResponse.
ChatPost(body, provider, probe, backend, store) ==
  LET readiness == isReady(isAvailable(provider, probe),
                           Some(listAvailablePrompts(store)))
      answer == chatRoute(body, readiness)
      generated == generateResponse(provider, backend)
      fault == RouteFault(store, generated)
      record == [ op |-> "chatPost", body |-> body, provider |-> provider,
                  probe |-> probe, store |-> store, answer |-> answer,
                  llm |-> "not called", result |-> None, sent |-> None,
                  debugView |-> None ]
  IN /\ calls < MaxGatewayCalls
     /\ calls' = calls + 1
     /\ UNCHANGED << tasks, now, inflight >>
     /\ IF ~answer.called
        THEN /\ last' = record
             /\ UNCHANGED << memory, conversation, topicLog >>
        ELSE LET userId == Get(Get(body).userId)
                 userMessage == Get(Get(body).message)
                 overrides == Get(body).overrides
             IN \E o \in processMessage(memory, conversation, userId, userMessage,
                                        overrides, generated.content, fault, now, 1) :
                  LET debug == getDebugView(o.mem, userId, userMessage, overrides,
                                            fault.step = "prompt", now)
                  IN
                  /\ memory' = IF Get(body).debug THEN debug.mem ELSE o.mem
                  /\ conversation' = o.conv
                  /\ last' = [ record EXCEPT
                                 !.llm = IF fault.step = "prompt" THEN "not called"
                                         ELSE generated.kind,
                                 !.result = Some(o.result),
                                 !.sent = IF fault.step = "prompt" THEN None
                                          ELSE Some(o.prompt),
                                 !.debugView = IF Get(body).debug THEN Some(debug.view)
                                               ELSE None ]
                  /\ topicLog' = [ topicLog EXCEPT ![userId] =
                       TopicLogAfter(memory', userId,
                         IF fault.step = "none"
                              /\ TopicsWritten(updateContextFromMessage(o.context,
                                   userMessage, generated.content), Len(ContextKeys))
                           THEN TopicsOf(userMessage) ELSE <<>>,
                         @) ]

NextGateway ==
  \/ \E p \in Providers : \E b \in Backends : GenerateResponse(p, b)
  \/ \E body \in ChatBodies : \E p \in {"lmstudio", "openai"} : \E pr \in Probes :
       \E b \in ChatBackends : \E st \in Stores : ChatPost(body, p, pr, b, st)
  \/ \E p \in Providers : \E b \in Probes : IsAvailable(p, b)
  \/ \E p \in Providers : \E b \in Probes : \E l \in Listings : IsReady(p, b, l)

SpecGateway == Init /\ [][NextGateway]_vars

(***************************************************************************)
(* processMessage step by step (SpecRace): every await of the try block is *)
(* a point where another call of the same user can run.  inflight.calls    *)
(* holds each call's position and local variables, inflight.order the      *)
(* calls in the order of their recent_topics writes.                       *)
(***************************************************************************)
RaceMessages == { <<"learning", SP, "math">>, <<"studying", SP, "chess">> }

Call(id) == inflight.calls[id]

SetCall(id, c) == [ inflight EXCEPT !.calls[id] = c ]

\* processMessage is called.
RaceBegin(id, userMessage) ==
  /\ Call(id).pc = "idle"
  /\ id > 1 => Call(id - 1).pc # "idle"
  /\ inflight' = SetCall(id, [ Idle EXCEPT !.pc = "read", !.userId = "u1",
                                 !.message = userMessage, !.key = 1,
                                 !.context = EmptyContext("u1") ])
  /\ UNCHANGED << memory, conversation, tasks, now, calls, last, topicLog >>

\* One getMemory of getConversationContext.
RaceRead(id) ==
  LET c == Call(id)
      r == getMemory(memory, c.userId, ContextKeys[c.key], Some("conversation"), now)
  IN /\ c.pc = "read"
     /\ memory' = r.mem
     /\ inflight' = SetCall(id, [ c EXCEPT
          !.context = WithField(c.context, ContextKeys[c.key], r.result),
          !.key = IF c.key < Len(ContextKeys) THEN c.key + 1 ELSE 0,
          !.pc = IF c.key < Len(ContextKeys) THEN "read" ELSE "llm" ])
     /\ UNCHANGED << conversation, tasks, now, calls, last, topicLog >>

\* getRelevantMemories, buildPrompt, generateResponse, updateContextFromMessage.
RaceGenerate(id) ==
  LET c == Call(id)
  IN /\ c.pc = "llm"
     /\ inflight' = SetCall(id, [ c EXCEPT
          !.prompt = Get(buildPrompt(PromptFiles, c.message, c.context,
                           formatMemoriesForPrompt(getRelevantMemories(memory,
                             c.userId, c.context, DefaultLimit, now)), None)),
          !.updated = updateContextFromMessage(c.context, c.message, Sure),
          !.pc = "conv_user" ])
     /\ UNCHANGED << memory, conversation, tasks, now, calls, last, topicLog >>

\* The two storeConversation calls.
RaceStoreConversation(id) ==
  LET c == Call(id)
  IN /\ c.pc \in {"conv_user", "conv_zara"}
     /\ conversation' = IF c.pc = "conv_user"
                          THEN storeConversation(conversation, c.userId, c.message, "user")
                          ELSE storeConversation(conversation, c.userId, Sure, "zara")
     /\ inflight' = SetCall(id, [ c EXCEPT
          !.writes = IF c.pc = "conv_zara" THEN ContextWrites(c.updated) ELSE <<>>,
          !.pc = IF c.pc = "conv_user" THEN "conv_zara"
                 ELSE IF ContextWrites(c.updated) = <<>> THEN "return" ELSE "find" ])
     /\ UNCHANGED << memory, tasks, now, calls, last, topicLog >>

\* storeMemory, first await: prisma.memory.findFirst.
RaceFind(id) ==
  LET c == Call(id)
      hits == Matching(memory, c.userId, Head(c.writes).key, Some("conversation"))
  IN /\ c.pc = "find"
     /\ \E f \in (IF hits = {} THEN { None } ELSE { Some(memory[i].id) : i \in hits }) :
          inflight' = SetCall(id, [ c EXCEPT !.found = f, !.pc = "write" ])
     /\ UNCHANGED << memory, conversation, tasks, now, calls, last, topicLog >>

\* storeMemory, second await: prisma.memory.update of the row found, or
\* prisma.memory.create.
RaceWrite(id) ==
  LET c == Call(id)
      w == Head(c.writes)
      at == { i \in 1..Len(memory) : IsSome(c.found) /\ memory[i].id = Get(c.found) }
      topics == w.key = "recent_topics"
  IN /\ c.pc = "write"
     /\ IsSome(c.found) => at # {}
     /\ memory' = IF IsSome(c.found)
                    THEN Append(RemoveAt(memory, Min(at)),
                                UpdatedRow(memory[Min(at)], w.value, None))
                    ELSE Append(memory, CreatedRow(memory, c.userId, w.key, w.value,
                                                   "conversation", None))
     /\ inflight' = [ calls |-> [ inflight.calls EXCEPT ![id] = [ c EXCEPT
                        !.writes = Tail(c.writes), !.found = None,
                        !.pc = IF Len(c.writes) > 1 THEN "find" ELSE "return" ] ],
                      order |-> IF topics THEN Append(inflight.order, id)
                                ELSE inflight.order ]
     /\ topicLog' = [ topicLog EXCEPT ![c.userId] =
          TopicLogAfter(memory', c.userId,
                        IF topics THEN TopicsOf(c.message) ELSE <<>>, @) ]
     /\ UNCHANGED << conversation, tasks, now, calls, last >>

\* The return of the try block.
RaceReturn(id) ==
  LET c == Call(id)
      result == TryResult(Sure, c.updated, c.prompt, 1)
  IN /\ c.pc = "return"
     /\ inflight' = SetCall(id, [ c EXCEPT !.pc = "done", !.result = Some(result) ])
     /\ last' = [ op |-> "processMessage", userId |-> c.userId, message |-> c.message,
                  reply |-> Sure, fault |-> NoFault, context |-> c.context,
                  result |-> result ]
     /\ UNCHANGED << memory, conversation, tasks, now, calls, topicLog >>

NextRace ==
  \/ \E id \in 1..MaxRaceCalls : \E m \in RaceMessages : RaceBegin(id, m)
  \/ \E id \in 1..MaxRaceCalls : RaceRead(id)
  \/ \E id \in 1..MaxRaceCalls : RaceGenerate(id)
  \/ \E id \in 1..MaxRaceCalls : RaceStoreConversation(id)
  \/ \E id \in 1..MaxRaceCalls : RaceFind(id)
  \/ \E id \in 1..MaxRaceCalls : RaceWrite(id)
  \/ \E id \in 1..MaxRaceCalls : RaceReturn(id)

SpecRace == Init /\ [][NextRace]_vars

(***************************************************************************)
(* SpecCtxFault: storeConversationContext calls one of whose writes may    *)
(* throw.                                                                  *)
(***************************************************************************)
\* storeConversationContext that made `done` of its writes: all of them and
\* returned, or fewer because the next storeMemory threw and the catch block
\* rethrew.  `before` is the store at the call.
StoreConversationContextUpTo(userId, context, done) ==
  /\ calls < MaxCtxCalls
  /\ done <= Len(ContextWrites(context))
  /\ memory' \in storeConversationContext(memory, userId, context, done)
  /\ last' = [ op |-> "storeConversationContext", userId |-> userId,
               context |-> context, before |-> memory,
               thrown |-> done < Len(ContextWrites(context)) ]
  /\ calls' = calls + 1
  /\ UNCHANGED << conversation, tasks, now, topicLog, inflight >>

NextCtxFault ==
  \E u \in Users : \E c \in CtxInputs(u) : \E done \in 0..Len(ContextKeys) :
    StoreConversationContextUpTo(u, c, done)

SpecCtxFault == Init /\ [][NextCtxFault]_vars

(***************************************************************************)
(* SpecChat: successive chats of two users whose messages and replies      *)
(* carry tasks, moods, energy levels and module keywords; the model call   *)
(* of a chat may fail.                                                     *)
(***************************************************************************)
ChatTurns ==
  { << MsgReport, <<"sure">> >>, << MsgPlural, <<"stressed">> >>,
    << MsgTired, <<"sure">> >>, << MsgCode, <<"sure">> >>,
    << MsgMixed, <<"sure">> >>, << MsgReport, <<"tired">> >> }

ChatFaults == { NoFault, [ step |-> "llm", done |-> 0 ] }

NextChat ==
  \E u \in Users, c \in ChatTurns, f \in ChatFaults :
    ProcessMessage(MaxChatCalls, u, c[1], c[2], f, 1)

SpecChat == Init /\ [][NextChat]_vars

Persisted(mem, userId, key, value) ==
  \E i \in 1..Len(mem) :
    /\ mem[i].userId = userId /\ mem[i].key = key
    /\ mem[i].type = "conversation" /\ mem[i].value = value

\* C6: a processMessage call that returns the model's reply has appended
\* exactly two records for the user, the user message tagged user and then the
\* reply tagged zara, and has persisted the populated fields of the returned
\* context; a call that failed at the Model Gateway or before has written
\* nothing, a call that failed while appending a record has not stored the
\* context, and a call that failed storing the context has appended both
\* records first.
C6_Step ==
  (calls' = calls + 1 /\ last'.op = "processMessage") =>
    LET u == last'.userId
        userRecord == [ userId |-> u, content |-> last'.message, type |-> "user" ]
        zaraRecord == [ userId |-> u, content |-> last'.reply, type |-> "zara" ]
        c == last'.result.context
        step == last'.fault.step
    IN /\ last'.result.kind = "ok" =>
            /\ conversation' = conversation \o << userRecord, zaraRecord >>
            /\ IsSome(c.currentTask) /\ Get(c.currentTask) # <<>> =>
                 Persisted(memory', u, "current_task", Get(c.currentTask))
            /\ IsSome(c.mood) => Persisted(memory', u, "current_mood", Get(c.mood))
            /\ IsSome(c.energy) => Persisted(memory', u, "current_energy", Get(c.energy))
            /\ IsSome(c.recentTopics) /\ Get(c.recentTopics) # <<>> =>
                 \E i \in 1..Len(memory') :
                   /\ memory'[i].userId = u /\ memory'[i].key = "recent_topics"
                   /\ JsonParse(memory'[i].value) = c.recentTopics
            /\ IsSome(c.activeModules) /\ Get(c.activeModules) # <<>> =>
                 \E i \in 1..Len(memory') :
                   /\ memory'[i].userId = u /\ memory'[i].key = "active_modules"
                   /\ JsonParse(memory'[i].value) = c.activeModules
       /\ step \in {"context", "memories", "prompt", "llm", "derive", "conv_user"} =>
            conversation' = conversation /\ memory' = memory
       /\ step = "conv_zara" =>
            conversation' = conversation \o << userRecord >> /\ memory' = memory
       /\ step = "store" =>
            conversation' = conversation \o << userRecord, zaraRecord >>

C6_TwoRecordsThenContext == [][C6_Step]_vars

\* A successful call has left the two records and a stored context.
C6_Witness ==
  /\ last.op = "processMessage"
  /\ last.result.kind = "ok"
  /\ Len(conversation) = 2
  /\ conversation[1].type = "user" /\ conversation[2].type = "zara"
  /\ Len(memory) > 0

\* The positions of the words that follow a trigger phrase and whitespace.
TriggerWords(text) ==
  { p \in 1..Len(text) :
      /\ text[p] # SP
      /\ \E s \in 1..Len(text) : \E e \in LiteralEnds(text, s, TaskTriggers) :
           e + 1 < p /\ \A q \in (e + 1)..(p - 1) : text[q] = SP }

\* C7: when the prior context has no currentTask and the message contains a
\* task keyword and a trigger phrase followed by whitespace and text, a
\* processMessage call that returns the reply returns and persists a context
\* whose currentTask is the non-empty first word after the first such trigger.
C7_TaskCaptured ==
  ( /\ last.op = "processMessage"
    /\ last.result.kind = "ok"
    /\ ~(IsSome(last.context.currentTask) /\ Get(last.context.currentTask) # <<>>)
    /\ \E kw \in {"task", "todo", "remind", "deadline", "due", "finish", "complete"} :
         Includes(last.message, kw)
    /\ TriggerWords(last.message) # {} )
  => LET p == CHOOSE x \in TriggerWords(last.message) :
                \A y \in TriggerWords(last.message) : x <= y
         word == << last.message[p] >>
     IN /\ last.result.context.currentTask = << word >>
        /\ word # <<>> /\ word[1] # SP
        /\ Persisted(memory, last.userId, "current_task", word)

\* "I need to finish my report by tomorrow" on a context without a task.
C7_Witness ==
  /\ last.op = "processMessage"
  /\ last.result.kind = "ok"
  /\ last.message = MsgReport
  /\ last.context.currentTask = None
  /\ last.result.context.currentTask = Some(<<"finish">>)

(***************************************************************************)
(* Properties of the topic list (SpecTopics).                              *)
(***************************************************************************)
\* The conversation rows of a user under a key.
RowsOf(mem, userId, key) ==
  { i \in 1..Len(mem) : mem[i].userId = userId /\ mem[i].key = key
                          /\ mem[i].type = "conversation" }

\* s is the last entries of log, at most 5 of them, in the order of log.
IsRecentTail(s, log) ==
  /\ Len(s) <= 5
  /\ Len(s) = (IF Len(log) < 5 THEN Len(log) ELSE 5)
  /\ \A i \in 1..Len(s) : s[i] = log[Len(log) - Len(s) + i]

\* C2: starting from an empty context, after any number of processMessage
\* calls for a user the recentTopics list that is persisted, and the one a
\* successful call returns, has at most 5 entries: the last ones of the topics
\* extracted so far, oldest first.
C2_RecentTopicsTail ==
  /\ \A u \in Users :
       /\ Cardinality(RowsOf(memory, u, "recent_topics")) <= 1
       /\ RowsOf(memory, u, "recent_topics") = {} => topicLog[u] = <<>>
       /\ \A i \in RowsOf(memory, u, "recent_topics") :
            /\ IsSome(JsonParse(memory[i].value))
            /\ IsRecentTail(Get(JsonParse(memory[i].value)), topicLog[u])
  /\ (last.op = "processMessage" /\ last.result.kind = "ok") =>
       IsRecentTail(OrEmpty(last.result.context.recentTopics), topicLog[last.userId])

\* More than 5 topics were extracted for a user: the oldest have been dropped.
C2_Witness ==
  /\ last.op = "processMessage"
  /\ last.result.kind = "ok"
  /\ Len(topicLog[last.userId]) > 5
  /\ Len(OrEmpty(last.result.context.recentTopics)) = 5

\* C8: after resetConversation(userId) returns true, all ConversationRecords
\* of that user have been deleted, so a history read for the user returns an
\* empty list.
C8_ResetClearsHistory ==
  (last.op = "resetConversation" /\ last.result = TRUE) =>
    /\ \A i \in 1..Len(conversation) : conversation[i].userId # last.userId
    /\ getConversationHistory(conversation, last.userId, HistoryLimit, NoFault) = <<>>

(***************************************************************************)
(* Properties of the memory service (SpecMem).                             *)
(***************************************************************************)
\* C3: after any sequence of storeMemory calls made one after another, at
\* most one row exists for every (userId, key, type); a call for a triple that
\* has a row updates that row (same id, the new value) and adds none.
C3_OneRowPerTriple ==
  /\ \A i, j \in 1..Len(memory) :
       ( /\ memory[i].userId = memory[j].userId
         /\ memory[i].key = memory[j].key
         /\ memory[i].type = memory[j].type ) => i = j
  /\ \A i, j \in 1..Len(memory) : memory[i].id = memory[j].id => i = j
  /\ last.op = "storeMemory" =>
       /\ \E i \in 1..Len(memory) : memory[i] = last.row
       /\ last.row.value = last.value
       /\ last.prior # {} => last.prior = { last.row.id }

\* A second storeMemory call for a triple has left one row, with the new value.
C3_Witness ==
  /\ last.op = "storeMemory"
  /\ last.prior # {}
  /\ calls = 2
  /\ Len(memory) = 1
  /\ memory[1].value = last.value

\* The expiresAt of a row has passed at a time.
Passed(row, at) == row.expiresAt # <<>> /\ row.expiresAt[1] < at

\* C4: getMemory and getRelevantMemories never return a memory whose
\* expiresAt has passed; a getMemory(userId, key, type?) call whose match is
\* expired deletes that row and returns absent, and a second identical
\* getMemory call also returns absent.
C4_SecondCallAbsent ==
  /\ last.op = "getMemory" =>
       /\ last.result # <<>> => ~Passed(last.result[1], last.at)
       /\ (last.match # <<>> /\ Passed(last.match[1], last.at)) =>
            /\ last.result = <<>>
            /\ \A i \in 1..Len(memory) : memory[i].id # last.match[1].id
       /\ last.after # <<>> => last.result = <<>>
  /\ last.op = "getRelevantMemories" =>
       \A i \in 1..Len(last.result) : ~Passed(last.result[i], last.at)

(***************************************************************************)
(* Properties of the stored context (SpecCtx, SpecReset).                  *)
(***************************************************************************)
\* C5: for every context c and every prior stored state of the user,
\* storeConversationContext(userId, c) followed, with no write in between, by
\* getConversationContext(userId) returns a context with the same populated
\* fields holding the same values.
C5_RoundTrip ==
  (last.op = "getConversationContext" /\ last.stored # <<>>) =>
    last.result = last.stored[1]

\* C9: after resetConversation(userId) returns true, every memory of type
\* conversation of that user has been deleted, however many memories the user
\* has, so getConversationContext(userId) returns the context holding only
\* userId.
C9_ResetClearsContext ==
  (last.op = "resetConversation" /\ last.result = TRUE) =>
    /\ \A i \in 1..Len(memory) :
         ~(memory[i].userId = last.userId /\ memory[i].type = "conversation")
    /\ getConversationContext(memory, last.userId, Len(ContextKeys), now).context =
         [ userId |-> last.userId, currentTask |-> <<>>, mood |-> <<>>,
           energy |-> <<>>, recentTopics |-> <<>>, activeModules |-> <<>> ]

At(o, k) == IF IsSome(o) /\ MapHas(Get(o), k) THEN Some(MapGet(Get(o), k)) ELSE None

ModuleNames == {"languagePractice", "wellbeing", "coding"}

\* C11: mergePrompts leaves every field the override does not supply as it
\* is in the defaults (so with the empty override the result equals the
\* defaults), and merges modulePrompts key by key: a key of the override has
\* the override's value, a default key absent from the override keeps the
\* default's value, and there are no other keys.
C11_MergeKeepsUnsupplied ==
  last.op = "mergePrompts" =>
    LET d == last.defaults
        o == last.overrides
        r == last.result
    IN /\ \A f \in {"systemPrompt", "taskPrompt", "modulePrompts", "style"} :
            o[f] = None => r[f] = d[f]
       /\ o = NoOverrides => r = d
       /\ IsSome(o.modulePrompts) =>
            \A k \in ModuleNames :
              At(r.modulePrompts, k) =
                IF IsSome(At(o.modulePrompts, k)) THEN At(o.modulePrompts, k)
                ELSE At(d.modulePrompts, k)

C11_Witness ==
  /\ last.op = "mergePrompts"
  /\ At(last.defaults.modulePrompts, "wellbeing") = Some(<<"check">>)
  /\ At(last.overrides.modulePrompts, "languagePractice") = Some(<<"Spanish">>)
  /\ At(last.overrides.modulePrompts, "wellbeing") = None
  /\ At(last.result.modulePrompts, "wellbeing") = Some(<<"check">>)
  /\ At(last.result.modulePrompts, "languagePractice") = Some(<<"Spanish">>)

ContainsSeq(s, p) ==
  \E i \in 1..(Len(s) - Len(p) + 1) : SubSeq(s, i, i + Len(p) - 1) = p

\* The default value of a scalar field of the configuration.
DefaultText(f) == IF f = "systemPrompt" THEN Persona ELSE TaskGuide

\* C12: whenever an override has systemPrompt or taskPrompt, with any string
\* the chat endpoint accepts (the empty string included), the merged field
\* equals the override's value and the default value is not in the prompt
\* that buildPrompt assembles.
C12_ScalarOverrideReplaces ==
  /\ last.op = "mergePrompts" =>
       \A f \in {"systemPrompt", "taskPrompt"} :
         IsSome(last.overrides[f]) => last.result[f] = last.overrides[f]
  /\ (last.op = "buildPrompt" /\ IsSome(last.overrides) /\ IsSome(last.result)) =>
       \A f \in {"systemPrompt", "taskPrompt"} :
         IsSome(Get(last.overrides)[f]) =>
           ~ContainsSeq(Get(last.result), DefaultText(f))

\* The parts of a prompt: the text between the '\n\n' separators.
RECURSIVE Split(_)
Split(s) ==
  IF \A i \in 1..Len(s) : s[i] # NL2 THEN << s >>
  ELSE LET i == Min({ j \in 1..Len(s) : s[j] = NL2 })
       IN << SubSeq(s, 1, i - 1) >> \o Split(SubSeq(s, i + 1, Len(s)))

HasPrefix(s, p) == Len(s) >= Len(p) /\ SubSeq(s, 1, Len(p)) = p

IsModuleBlock(b) == HasPrefix(b, <<"[System]", SP, "Module:", SP>>) /\ Len(b) >= 8

IsMemoryBlock(b) == HasPrefix(b, <<"[System]", SP, "Memory:", SP>>)

\* The module has a template file with a non-empty modulePrompt.
Resolves(moduleName) ==
  /\ ModulePath(moduleName) \in DOMAIN PromptFiles
  /\ Truthy(Field(PromptFiles[ModulePath(moduleName)], "modulePrompt"))

\* The active modules that resolve, each once, in order of first appearance.
ResolvedModules(activeModules) ==
  Dedup(SelectSeq(OrEmpty(activeModules), Resolves))

\* The keys of the override's modulePrompts that are not resolved active
\* modules.
OverrideOnly(activeModules, overrides) ==
  IF IsSome(overrides) /\ IsSome(Get(overrides).modulePrompts)
  THEN SelectSeq(MapKeys(Get(Get(overrides).modulePrompts)),
                 LAMBDA k : \A i \in 1..Len(ResolvedModules(activeModules)) :
                              ResolvedModules(activeModules)[i] # k)
  ELSE <<>>

\* The prompt is: a persona block, a task block, one module block for each
\* of `names` in that order, a memory block iff hasMemory, the user block.
PromptShape(prompt, names, hasMemory, userMessage) ==
  LET b == Split(prompt)
      n == Len(b)
  IN /\ n = 2 + Len(names) + (IF hasMemory THEN 1 ELSE 0) + 1
     /\ b[1] \in { SystemPart(Persona), SystemPart(Formal) }
     /\ b[2] \in { SystemPart(TaskGuide), SystemPart(<<"Plan">>) }
     /\ \A i \in 1..Len(names) : IsModuleBlock(b[2 + i]) /\ b[2 + i][5] = names[i]
     /\ hasMemory => IsMemoryBlock(b[n - 1])
     /\ b[n] = UserPart(userMessage)

\* C13 as stated: the prompt is the persona block, the task block, the module
\* blocks in the order of context.activeModules, a memory block exactly when
\* the digest is not the empty string, and the user message block.
C13_FixedOrder ==
  (last.op = "buildPrompt" /\ IsSome(last.result)) =>
    PromptShape(Get(last.result), ResolvedModules(last.activeModules),
                last.memory # <<>>, last.userMessage)

\* C13 amended: the module blocks are those of the resolved active modules in
\* order of first appearance followed by the override's other module keys in
\* the override's order, and the memory block is there exactly when the
\* digest has a character that is not whitespace.
C13_FixedOrderMerged ==
  (last.op = "buildPrompt" /\ IsSome(last.result)) =>
    PromptShape(Get(last.result),
                ResolvedModules(last.activeModules)
                  \o OverrideOnly(last.activeModules, last.overrides),
                \E i \in 1..Len(last.memory) : ~IsWs(last.memory[i]),
                last.userMessage)

C13_Witness ==
  /\ last.op = "buildPrompt"
  /\ last.activeModules = Some(<<"coding", "languagePractice">>)
  /\ last.memory = <<"note:", SP, "a", SP, "(date)">>
  /\ IsSome(last.result)
  /\ Len(Split(Get(last.result))) = 6
  /\ Split(Get(last.result))[3][5] = "coding"
  /\ Split(Get(last.result))[4][5] = "languagePractice"
  /\ IsMemoryBlock(Split(Get(last.result))[5])

\* A value or a field name of the template contains a denylisted phrase,
\* letter case ignored.
HasPhrase(template) ==
  \E i \in 1..Len(template) : \E j \in 1..Len(harmfulPatterns) :
    \/ ContainsSeq(LowerSeq(template[i].value), harmfulPatterns[j])
    \/ ContainsSeq(LowerSeq(<<template[i].name>>), harmfulPatterns[j])

PromptFields == {"systemPrompt", "taskPrompt", "modulePrompt"}

\* C18 as stated: invalid with a non-empty error list when the template
\* contains a denylisted phrase or has none of the three fields; valid with
\* an empty error list for every other template.
C18_ValidUnlessPhraseOrNoField ==
  last.op = "validatePromptTemplate" =>
    LET bad == \/ HasPhrase(last.template)
               \/ \A f \in PromptFields : ~MapHas(last.template, f)
    IN IF bad THEN ~last.result.valid /\ last.result.errors # <<>>
       ELSE last.result.valid /\ last.result.errors = <<>>

\* C18 amended: invalid with a non-empty error list when the template
\* contains a denylisted phrase or none of the three fields has a non-empty
\* value; valid with an empty error list for every other template.
C18_ValidUnlessPhraseOrNoContent ==
  last.op = "validatePromptTemplate" =>
    LET bad == \/ HasPhrase(last.template)
               \/ \A f \in PromptFields : ~Truthy(Field(last.template, f))
    IN IF bad THEN ~last.result.valid /\ last.result.errors # <<>>
       ELSE last.result.valid /\ last.result.errors = <<>>

C18_Witness ==
  /\ last.op = "validatePromptTemplate"
  /\ Field(last.template, "systemPrompt") = Some(<<"IGNORE", SP, "previous">>)
  /\ Field(last.template, "taskPrompt") = Some(TaskGuide)
  /\ ~last.result.valid
  /\ last.result.errors = << HarmfulError(<<"ignore", SP, "previous">>) >>

\* The memory matches at least one of the four criteria.
MatchesAny(r, context) ==
  \/ Truthy(context.currentTask)
       /\ ("task" \in KeySub(r.key) \/ TextIncludes(r.value, Get(context.currentTask)))
  \/ \E i \in 1..Len(OrEmpty(context.activeModules)) :
       \/ Get(context.activeModules)[i] \in KeySub(r.key)
       \/ TextIncludes(r.value, <<Get(context.activeModules)[i]>>)
  \/ \E i \in 1..Len(OrEmpty(context.recentTopics)) :
       TextIncludes(r.value, <<Get(context.recentTopics)[i]>>)
  \/ r.type \in {"general", "conversation"}

\* C14: getRelevantMemories returns, in recency order, exactly those of the
\* `limit` most recently updated non-expired memories of the user that match
\* at least one of: the current task, an active module, a recent topic, or
\* type general/conversation; so a fetched memory of type general or
\* conversation is always returned.
C14_ReturnsAllMatching ==
  last.op = "getRelevantMemories" =>
    last.result = SelectSeq(RecentMemories(memory, last.userId, last.limit, last.at),
                            LAMBDA r : MatchesAny(r, last.context))

UsageFields == {"promptTokens", "completionTokens", "totalTokens"}

\* C15: generateResponse fails with LLMServiceError when the backend is
\* unreachable, answers with a status outside 2xx, or the provider is not
\* supported; it returns a result only for a successful call of a supported
\* backend, and the result of either backend is a content string with an
\* optional usage of the three token counts.
C15_FailsOrReturnsResult ==
  last.op = "generateResponse" =>
    LET failed == \/ ~last.backend.reach
                  \/ last.backend.status \notin 200..299
                  \/ last.provider \notin {"lmstudio", "ollama"}
    IN /\ failed => last.result = LLMError
       /\ last.result.kind \in {"ok", "LLMServiceError"}
       /\ last.result.kind = "ok" =>
            /\ ~failed
            /\ last.result.content \in Seq({Sure[1]})
            /\ IsSome(last.result.usage) =>
                 /\ DOMAIN Get(last.result.usage) = UsageFields
                 /\ \A f \in UsageFields : Get(last.result.usage)[f] \in Nat

C15_Witness ==
  /\ last.op = "generateResponse"
  /\ last.provider = "ollama"
  /\ last.backend.reach /\ last.backend.status = 200
  /\ last.result = LLMResult(Sure, Some([ promptTokens |-> 0, completionTokens |-> 2,
                                          totalTokens |-> 2 ]))

InvalidInput(body) ==
  \/ ~IsSome(body.userId) \/ Get(body.userId) = ""
  \/ ~IsSome(body.message)
  \/ StringLength(Get(body.message)) = 0
  \/ StringLength(Get(body.message)) > 2000

\* isReady does not report ready for this provider, probe and directory.
NotReady(provider, probe, store) ==
  \/ provider \notin {"lmstudio", "ollama"}
  \/ ~probe.reach \/ probe.status \notin 200..299
  \/ listAvailablePrompts(store) = <<>>

C17_Step ==
  (calls' = calls + 1 /\ last'.op = "chatPost") =>
    LET a == last'.answer
        invalid == IsSome(last'.body) /\ InvalidInput(Get(last'.body))
        unready == NotReady(last'.provider, last'.probe, last'.store)
    IN /\ invalid => a.status = 400 /\ a.error # ""
       /\ (IsSome(last'.body) /\ ~invalid /\ unready) =>
            /\ a.status = 503 /\ a.error # ""
            /\ a.issues # <<>>
       /\ a.called <=> (IsSome(last'.body) /\ ~invalid /\ ~unready)
       /\ ~a.called =>
            /\ a.status \notin 200..299
            /\ last'.llm = "not called" /\ last'.result = None
            /\ memory' = memory /\ conversation' = conversation

\* C17: the chat endpoint answers 400 with an error when validation fails
\* (userId empty, message empty or longer than 2000 characters) and 503 with
\* the issues when isReady reports not ready; in both cases processMessage is
\* not called, the model is not invoked and nothing is persisted; only a
\* valid request on a ready pipeline reaches processMessage.
C17_RejectsBeforeProcessing == [][C17_Step]_vars

C17_Witness ==
  /\ last.op = "chatPost"
  /\ IsSome(last.body) /\ ~InvalidInput(Get(last.body))
  /\ ~last.probe.reach
  /\ last.answer.status = 503
  /\ last.answer.issues = << "LLM service is not available" >>
  /\ memory = <<>> /\ conversation = <<>>

StoredTopics(userId) ==
  getConversationContext(memory, userId, Len(ContextKeys), now).context.recentTopics

AllReturned ==
  \A id \in 1..MaxRaceCalls : Call(id).pc \in {"idle", "done"}

\* C20: calls of one user are not serialized and the last write wins: once
\* the calls under way have returned, the stored recentTopics is the list of
\* the call that wrote last, computed from the context that call had read,
\* whatever the other calls wrote in between; and every call returned
\* success.
C20_LastWriteWins ==
  (AllReturned /\ inflight.order # <<>>) =>
    LET winner == Call(inflight.order[Len(inflight.order)])
    IN /\ StoredTopics("u1") = winner.updated.recentTopics
       /\ winner.updated.recentTopics =
            Some(SliceLast(OrEmpty(winner.context.recentTopics)
                             \o TopicsOf(winner.message), TopicCap))
       /\ \A id \in 1..MaxRaceCalls :
            Call(id).pc = "done" => Get(Call(id).result).kind = "ok"

\* Both calls read the same stored context, the second write overwrote the
\* row the first had written, the topic of the first call is gone, both calls
\* returned success.
C20_Witness ==
  /\ Call(1).pc = "done" /\ Call(2).pc = "done"
  /\ inflight.order = <<1, 2>>
  /\ Call(1).context = Call(2).context
  /\ Get(Call(1).result).kind = "ok" /\ Get(Call(2).result).kind = "ok"
  /\ Get(Call(1).result).context.recentTopics = Some(<<"math">>)
  /\ Get(Call(2).result).context.recentTopics = Some(<<"chess">>)
  /\ Cardinality(Matching(memory, "u1", "recent_topics", Some("conversation"))) = 1
  /\ StoredTopics("u1") = Some(<<"chess">>)

(***************************************************************************)
(* Properties of the context kept across calls.                            *)
(***************************************************************************)
\* The rows of one (userId, key, type).
SameTriple(a, b) ==
  /\ a.userId = b.userId
  /\ a.key = b.key
  /\ a.type = b.type

\* C21: in every reachable state, with the storeMemory calls of concurrent
\* processMessage calls of one user interleaved at their awaits, at most one
\* memory row exists per (userId, key, type).
C21_OneRowPerTripleConcurrent ==
  \A i, j \in 1..Len(memory) : SameTriple(memory[i], memory[j]) => i = j

\* The context that getConversationContext returns for a user.
StoredContext(mem, userId) ==
  getConversationContext(mem, userId, Len(ContextKeys), now).context

\* C22: once a user's stored context has a currentTask, a later processMessage
\* call for any user leaves that task as it is, whatever its message says.
C22_Step ==
  \A u \in Users :
    Truthy(StoredContext(memory, u).currentTask) =>
      StoredContext(memory', u).currentTask = StoredContext(memory, u).currentTask

C22_TaskKeptOnceSet == [][C22_Step]_vars

\* A second call of a user whose message names another task ("todo chess"
\* after "need to finish") has returned, and the stored task is the first.
C22_Witness ==
  /\ last.op = "processMessage"
  /\ last.fault = NoFault
  /\ calls = 2
  /\ Truthy(last.context.currentTask)
  /\ IncludesAny(last.message, taskKeywords)
  /\ IsSome(CaptureOf(last.message))
  /\ Trim(Get(CaptureOf(last.message))) # Get(last.context.currentTask)
  /\ StoredContext(memory, last.userId).currentTask = last.context.currentTask

\* The modules one of whose keywords is in a text, as a set.
ModulesIn(text) ==
  { moduleKeywords[i].name : i \in { k \in 1..Len(moduleKeywords) :
                                       IncludesAny(text, moduleKeywords[k].words) } }

StoredModules(mem, userId) == OrEmpty(StoredContext(mem, userId).activeModules)

IsPrefix(s, t) == Len(s) <= Len(t) /\ SubSeq(t, 1, Len(s)) = s

NoDuplicates(s) == \A i, j \in 1..Len(s) : s[i] = s[j] => i = j

\* C23: over every processMessage call of a sequence that starts from the
\* empty context, the stored activeModules of every user has no duplicate,
\* keeps the modules it had in their order, in front of the ones newly added
\* (first-seen order, a module once added is never removed), and after a call
\* that succeeded holds every module one of whose keywords is in the call's
\* message or in the model's reply, and no module beyond those and the ones
\* it had.
C23_Step ==
  \A u \in Users :
    LET old == StoredModules(memory, u)
        new == StoredModules(memory', u)
    IN /\ NoDuplicates(new)
       /\ IsPrefix(old, new)
       /\ ( /\ last'.op = "processMessage"
            /\ last'.userId = u
            /\ last'.fault = NoFault ) =>
            /\ ModulesIn(last'.message) \cup ModulesIn(last'.reply)
                 \subseteq { new[i] : i \in 1..Len(new) }
            /\ { new[i] : i \in 1..Len(new) } =
                 { old[i] : i \in 1..Len(old) }
                   \cup ModulesIn(last'.message) \cup ModulesIn(last'.reply)

Named(names, words, text, old) ==
  IF IncludesAny(text, words[1]) THEN Some(<<names[1]>>)
  ELSE IF IncludesAny(text, words[2]) THEN Some(<<names[2]>>)
  ELSE IF IncludesAny(text, words[3]) THEN Some(<<names[3]>>)
  ELSE old

MoodOf(text, old) ==
  Named(<<"happy", "stressed", "neutral">>,
        << {"happy", "great", "excellent", "wonderful", "excited"},
           {"stressed", "worried", "anxious", "overwhelmed", "tired"},
           {"okay", "fine", "alright", "normal"} >>, text, old)

EnergyOf(text, old) ==
  Named(<<"high", "low", "medium">>,
        << {"energetic", "motivated", "ready", "excited"},
           {"tired", "exhausted", "drained", "unmotivated"},
           {"okay", "fine", "normal"} >>, text, old)

\* C24: the mood a successful processMessage call returns and stores is the
\* first of happy, stressed, neutral one of whose keywords is in the user
\* message, and the mood the call had read when none is; the reply plays no
\* part.  The same holds of energy with high, low, medium.
C24_MoodFromMessageOnly ==
  ( last.op = "processMessage" /\ last.fault = NoFault ) =>
    /\ last.result.context.mood = MoodOf(last.message, last.context.mood)
    /\ last.result.context.energy = EnergyOf(last.message, last.context.energy)
    /\ StoredContext(memory, last.userId).mood = last.result.context.mood
    /\ StoredContext(memory, last.userId).energy = last.result.context.energy

\* A call with "tired but excited" on a stored mood of neutral has set happy
\* and high: the first set in table order, not the first word of the message.
C24_Witness ==
  /\ last.op = "processMessage"
  /\ last.fault = NoFault
  /\ last.message = MsgMixed
  /\ last.context.mood = Some(<<"neutral">>)
  /\ last.context.energy = Some(<<"medium">>)
  /\ StoredContext(memory, last.userId).mood = Some(<<"happy">>)
  /\ StoredContext(memory, last.userId).energy = Some(<<"high">>)

\* A call whose reply alone has a mood keyword ("tired") has kept the mood.
C24_WitnessReply ==
  /\ last.op = "processMessage"
  /\ last.fault = NoFault
  /\ last.reply = <<"tired">>
  /\ last.context.mood = Some(<<"happy">>)
  /\ StoredContext(memory, last.userId).mood = Some(<<"happy">>)

\* C25: storeConversationContext is all-or-nothing: a call that threw has
\* changed none of the user's context memories.
C25_AllOrNothing ==
  ( last.op = "storeConversationContext" /\ last.thrown ) => memory = last.before

(***************************************************************************)
(* Properties of the memory store, continued (SpecMem).                    *)
(***************************************************************************)
\* C26: a storeMemory call on a triple that has a row leaves that row with the
\* value and the expiry of the call (no expiry when none was given) and
\* returns it; so after a call with no expiresAt, or with one that has not
\* passed, getMemory of the triple returns a memory with the value of the call.
C26_OverwritesValueAndExpiry ==
  ( last.op = "storeMemory" /\ last.prior # {} ) =>
    /\ last.row.value = last.value
    /\ last.row.expiresAt = last.expiresAt
    /\ \E i \in 1..Len(memory) : memory[i] = last.row
    /\ ( ~IsSome(last.expiresAt) \/ Get(last.expiresAt) >= now ) =>
         LET r == getMemory(memory, last.userId, last.key, Some(last.type), now).result
         IN IsSome(r) /\ Get(r).value = last.value

(***************************************************************************)
(* Properties of successive chats, continued (SpecChat).                   *)
(***************************************************************************)
\* C27: a processMessage call whose model call fails appends no conversation
\* record and leaves the context that getConversationContext returns, for
\* every user, as it was before the call.
C27_Step ==
  ( last'.op = "processMessage" /\ calls' = calls + 1 /\ last'.fault.step = "llm" ) =>
    /\ conversation' = conversation
    /\ \A u \in Users : StoredContext(memory', u) = StoredContext(memory, u)

C27_ModelFailureWritesNothing == [][C27_Step]_vars

\* The model call failed on a message that would have set a mood and a module
\* ("tired but excited") for a user who has two records and a stored context
\* from an earlier call; the records and the context are those of that call.
C27_Witness ==
  /\ last.op = "processMessage"
  /\ last.fault.step = "llm"
  /\ last.message = MsgMixed
  /\ last.result.response = Apology
  /\ Len(getRecentConversations(conversation, last.userId, HistoryLimit)) = 2
  /\ StoredContext(memory, last.userId) = last.context
  /\ Truthy(last.context.currentTask)
  /\ ~IsSome(last.context.mood)

(***************************************************************************)
(* Properties of the prompt service, continued (SpecPrompt).               *)
(***************************************************************************)
\* The names of the module blocks of a prompt, in order.
BlockNames(prompt) ==
  LET b == SelectSeq(Split(prompt), IsModuleBlock)
  IN [ i \in 1..Len(b) |-> b[i][5] ]

IsActive(activeModules, name) ==
  \E i \in 1..Len(OrEmpty(activeModules)) : OrEmpty(activeModules)[i] = name

OverrideKeys(overrides) ==
  IF IsSome(overrides) /\ IsSome(Get(overrides).modulePrompts)
  THEN { MapKeys(Get(Get(overrides).modulePrompts))[i] :
           i \in 1..Len(MapKeys(Get(Get(overrides).modulePrompts))) }
  ELSE {}

\* C29 as stated: buildPrompt does not fail, and every module block of its
\* prompt names a module of context.activeModules whose fragment resolved.
C29_BlocksOnlyForActive ==
  last.op = "buildPrompt" =>
    /\ IsSome(last.result)
    /\ \A i \in 1..Len(BlockNames(Get(last.result))) :
         LET name == BlockNames(Get(last.result))[i]
         IN IsActive(last.activeModules, name) /\ Resolves(name)

\* C29 amended: buildPrompt does not fail; every module block names a module
\* of context.activeModules whose fragment resolved or a key of the override's
\* modulePrompts, active or not; an active module whose fragment is missing
\* and which the override does not supply has no block.
C29_BlocksForActiveOrOverride ==
  last.op = "buildPrompt" =>
    /\ IsSome(last.result)
    /\ \A i \in 1..Len(BlockNames(Get(last.result))) :
         LET name == BlockNames(Get(last.result))[i]
         IN \/ IsActive(last.activeModules, name) /\ Resolves(name)
            \/ name \in OverrideKeys(last.overrides)
    /\ \A i \in 1..Len(OrEmpty(last.activeModules)) :
         LET name == OrEmpty(last.activeModules)[i]
         IN ( ~Resolves(name) /\ name \notin OverrideKeys(last.overrides) ) =>
              \A j \in 1..Len(BlockNames(Get(last.result))) :
                BlockNames(Get(last.result))[j] # name

\* wellbeing (no template file) and coding are active and the override has an
\* entry for languagePractice, which is not: the blocks are coding and
\* languagePractice.
C29_Witness ==
  /\ last.op = "buildPrompt"
  /\ last.activeModules = Some(<<"wellbeing", "coding">>)
  /\ OverrideKeys(last.overrides) = {"languagePractice"}
  /\ IsSome(last.result)
  /\ BlockNames(Get(last.result)) = <<"coding", "languagePractice">>

(***************************************************************************)
(* Properties of the chat endpoint, continued (SpecGateway).               *)
(***************************************************************************)
\* C28: when a chat request asks for debug output, the debugView of the
\* answer is the header followed by exactly the prompt that was built and
\* sent to the model for that request.
C28_DebugViewIsPromptSent ==
  ( last.op = "chatPost" /\ IsSome(last.sent) /\ IsSome(last.debugView) ) =>
    Get(last.debugView) = DebugHeader \o Get(last.sent)

\* The scalar fragments of the overrides of a request body.
OverrideFragments(body) ==
  IF ~IsSome(body.overrides) THEN {}
  ELSE { Get(f) : f \in { x \in { Get(body.overrides).systemPrompt,
                                   Get(body.overrides).taskPrompt } : Truthy(x) } }

Denylisted(fragment) ==
  \E j \in 1..Len(harmfulPatterns) : ContainsSeq(LowerSeq(fragment), harmfulPatterns[j])

\* C30: an override fragment of a chat request that contains a denylisted
\* phrase is never part of a prompt sent to the model.
C30_DenylistedOverrideNeverSent ==
  ( last.op = "chatPost" /\ IsSome(last.body) /\ IsSome(last.sent) ) =>
    \A fragment \in OverrideFragments(Get(last.body)) :
      Denylisted(fragment) => ~ContainsSeq(Get(last.sent), fragment)

====
